---- MODULE Spec2Model ----
(***************************************************************************)
(* sari: scanner -> recursive-descent parser -> AST -> tree-walking        *)
(* evaluator, with the source map that resolves spans to line:column.     *)
(*                                                                         *)
(* The input text is a sequence of one-character strings.  i32 values are  *)
(* kept in [-2^31, 2^31-1]; every wrapping operation is computed without   *)
(* leaving that range.                                                     *)
(***************************************************************************)
EXTENDS Integers, Sequences, FiniteSets, TLC

VARIABLES
    input,        \* the text given to eval / Parser::new
    pos,          \* Scanner.pos
    start_pos,    \* Scanner.start_pos
    line_starts,  \* SourceMap.line_starts
    spc,          \* where the scanner is inside Scanner::scan
    ivalue,       \* scan_int_rest's local `value`
    current,      \* Parser.current
    advanced,     \* the token the last Parser::advance returned
    stack,        \* the parser's call stack (parse / parse_expr / parse_term / parse_factor)
    ret,          \* the Result the last finished parser call returned
    phase,        \* which stage of eval is running
    ast,          \* the AST handed to Evaluator::new
    estack,       \* the evaluator's call stack
    eret,         \* the Result the last finished evaluator call returned
    result,       \* what eval / Evaluator::eval returned
    mquery,       \* map_pos: the offset being resolved
    mstate,       \* map_pos: the locals base, size, index
    mpc,          \* map_pos: position in the function
    mresult,      \* map_pos: the SourcePos returned
    scanned,      \* the tokens Scanner::scan has returned since Scanner::new
    calls,        \* the texts the caller has yet to pass to eval or to a Scanner
    returned,     \* what the caller's finished calls returned, in order
    cmp_in,       \* two Errors (spans, positions) to compare with == and <
    cmp_out,      \* what the comparisons made so far returned, in order
    visited       \* the nodes eval_expr has been called on since Evaluator::new, in order

vars == <<input, pos, start_pos, line_starts, spc, ivalue, current, advanced,
          stack, ret, phase, ast, estack, eret, result,
          mquery, mstate, mpc, mresult, scanned, calls, returned,
          cmp_in, cmp_out, visited>>

scanner_vars == <<pos, start_pos, line_starts, spc, ivalue, scanned>>
parser_vars == <<current, advanced, stack, ret>>
eval_vars == <<ast, estack, eret, visited>>
map_vars == <<mquery, mstate, mpc, mresult>>
call_vars == <<calls, returned>>
cmp_vars == <<cmp_in, cmp_out>>

(***************************************************************************)
(* Bounds of the model.                                                    *)
(***************************************************************************)
MaxLen == 4          \* every text over Alphabet up to this length
MaxLineLen == 6      \* every text over LineAlphabet up to this length
MaxTokens == 7       \* every well-formed text up to this many tokens
MaxLit == 12         \* decimal literals -MaxLit .. MaxLit (and the same distance from the i32 limits)
MaxSmall == 3        \* operand values -MaxSmall .. MaxSmall (and the same distance from the i32 limits)
MaxLines == 4        \* line-start sequences up to this length
MaxOffset == 8       \* offsets and line starts up to this value
MaxScanLen == 4      \* every text over ScanAlphabet up to this length, for the scanner run until Eof
MaxEofScans == 3     \* the scan calls made after the first Eof
MaxTermLen == 3      \* every text over Alphabet up to this length, for the runs checked to end
MaxCmpOffset == 1    \* the offsets 0 .. this of the positions that are compared
MaxCallLen == 2      \* every text over CallAlphabet up to this length, for the caller's repeated calls

(***************************************************************************)
(* i32                                                                     *)
(***************************************************************************)
INT_MAX == 2147483647
INT_MIN == -2147483647 - 1

I32 == INT_MIN..INT_MAX

\* i32::saturating_add, which a slip could call in place of wrapping_add
saturating_add(l, r) ==
    IF l > 0 /\ r > 0 /\ l > INT_MAX - r THEN INT_MAX
    ELSE IF l < 0 /\ r < 0 /\ l < INT_MIN - r THEN INT_MIN
    ELSE l + r

\* i32::wrapping_add
wrapping_add(l, r) ==
    IF l > 0 /\ r > 0 /\ l > INT_MAX - r THEN (l + INT_MIN) + (r + INT_MIN)
    ELSE IF l < 0 /\ r < 0 /\ l < INT_MIN - r THEN (l - INT_MIN) + (r - INT_MIN)
    ELSE l + r

\* i32::wrapping_neg
wrapping_neg(x) == IF x = INT_MIN THEN INT_MIN ELSE -x

\* i32::wrapping_sub
wrapping_sub(l, r) ==
    IF r = INT_MIN
    THEN (IF l >= 0 THEN l + INT_MIN ELSE l - INT_MIN)
    ELSE wrapping_add(l, -r)

\* bit i (0..31) of the two's-complement representation of x
Bit(x, i) == IF i = 31 THEN (IF x < 0 THEN 1 ELSE 0) ELSE (x \div (2 ^ i)) % 2

\* x << i as a 32-bit integer: the bits 0..30-i of x move up, bit 31-i becomes the sign
Shl(x, i) ==
    IF i = 0 THEN x
    ELSE IF i = 31 THEN (IF Bit(x, 0) = 1 THEN INT_MIN ELSE 0)
    ELSE ((x % (2 ^ (31 - i))) * (2 ^ i)) + (IF Bit(x, 31 - i) = 1 THEN INT_MIN ELSE 0)

RECURSIVE MulBits(_, _, _, _)
\* the wrapping sum, over the bits lo..hi of r that are set, of l << bit
MulBits(l, r, lo, hi) ==
    IF lo = hi THEN (IF Bit(r, lo) = 1 THEN Shl(l, lo) ELSE 0)
    ELSE LET mid == (lo + hi) \div 2
         IN wrapping_add(MulBits(l, r, lo, mid), MulBits(l, r, mid + 1, hi))

\* i32::saturating_mul, which a slip could call in place of wrapping_mul
saturating_mul(l, r) ==
    LET w == MulBits(l, r, 0, 31)
    IN IF l # 0 /\ l # -1 /\ w \div l # r
       THEN (IF (l < 0) # (r < 0) THEN INT_MIN ELSE INT_MAX)
       ELSE w

\* i32::wrapping_mul
wrapping_mul(l, r) == MulBits(l, r, 0, 31)

\* a division that rounds toward negative infinity instead of toward zero
floor_div(l, r) ==
    IF l = INT_MIN /\ r = -1 THEN INT_MIN ELSE l \div r

\* i32::wrapping_div (r # 0): Rust's `/` truncates toward zero; MIN / -1 wraps
wrapping_div(l, r) ==
    IF l = INT_MIN /\ r = -1 THEN INT_MIN
    ELSE LET q == l \div r
         IN IF ((l < 0) # (r < 0)) /\ (q + 1) * r # l + r THEN q + 1 ELSE q

(***************************************************************************)
(* Characters                                                              *)
(***************************************************************************)
\* `ch as u32` for the characters the model draws its texts from; "U+2030" stands
\* for the one character PER MILLE SIGN of the scanner's tests
CodePoint ==
    ("0" :> 48) @@ ("1" :> 49) @@ ("2" :> 50) @@ ("3" :> 51) @@ ("4" :> 52) @@
    ("5" :> 53) @@ ("6" :> 54) @@ ("7" :> 55) @@ ("8" :> 56) @@ ("9" :> 57) @@
    ("+" :> 43) @@ ("-" :> 45) @@ ("*" :> 42) @@ ("/" :> 47) @@
    ("(" :> 40) @@ (")" :> 41) @@
    (" " :> 32) @@ ("\t" :> 9) @@ ("\r" :> 13) @@ ("\n" :> 10) @@
    ("%" :> 37) @@ ("U+2030" :> 8240)

\* the number of bytes of the character in the UTF-8 encoding of a str
Utf8Len(ch) ==
    IF CodePoint[ch] < 128 THEN 1
    ELSE IF CodePoint[ch] < 2048 THEN 2
    ELSE IF CodePoint[ch] < 65536 THEN 3
    ELSE 4

\* carriage return forgotten
is_whitespace_without_cr(ch) == ch = " " \/ ch = "\t" \/ ch = "\n"

is_whitespace(ch) == ch = " " \/ ch = "\t" \/ ch = "\r" \/ ch = "\n"

\* char::is_ascii_digit
is_digit(ch) == CodePoint[ch] >= 48 /\ CodePoint[ch] <= 57

\* the conversion without the subtraction of '0'
to_digit_raw(ch) == CodePoint[ch]

\* (ch as u32).wrapping_sub('0' as u32) as i32
to_digit(ch) ==
    IF CodePoint[ch] >= 48 THEN CodePoint[ch] - 48
    ELSE wrapping_sub(CodePoint[ch], 48)

(***************************************************************************)
(* Spans, source positions, the source map                                 *)
(***************************************************************************)
Span_new(start, end) == [start |-> start, end |-> end]

Min(a, b) == IF a <= b THEN a ELSE b
Max(a, b) == IF a >= b THEN a ELSE b

\* a cover that keeps the end of its first argument
SpanCoverKeepingEnd(a, b) == Span_new(Min(a.start, b.start), a.end)

Span_cover(a, b) == Span_new(Min(a.start, b.start), Max(a.end, b.end))

SourcePos_new(offset, line, column) ==
    [offset |-> offset, line |-> line, column |-> column]

SourceSpan_new(start, end) == [start |-> start, end |-> end]

SourceMap_new == <<0>>

add_line_start(ls, p) == Append(ls, p)

\* the locals of map_pos before its loop
MapPosInit(ls) == [base |-> 0, size |-> Len(ls), index |-> 0]

\* one iteration of the loop of map_pos (line_starts[mid] is ls[mid + 1])
MapPosIter(ls, p, st) ==
    LET half == st.size \div 2
        mid == st.base + half
        found == ls[mid + 1] <= p
    IN [base |-> IF found THEN mid + 1 ELSE st.base,
        size |-> st.size - half - 1,
        index |-> IF found THEN mid ELSE st.index]

RECURSIVE MapPosLoop(_, _, _)
MapPosLoop(ls, p, st) ==
    IF st.size > 0 THEN MapPosLoop(ls, p, MapPosIter(ls, p, st)) ELSE st

\* what map_pos returns once its loop has ended with locals st
MapPosResult(ls, p, st) ==
    SourcePos_new(p, st.index + 1, p - ls[st.index + 1] + 1)

map_pos(ls, p) == MapPosResult(ls, p, MapPosLoop(ls, p, MapPosInit(ls)))

map_span(ls, span) == SourceSpan_new(map_pos(ls, span.start), map_pos(ls, span.end))

Error_new(span, message) == [span |-> span, message |-> message]

Ok(v) == [tag |-> "Ok", value |-> v]
Err(e) == [tag |-> "Err", error |-> e]
None == [tag |-> "None"]

(***************************************************************************)
(* Tokens                                                                  *)
(***************************************************************************)
TokenKinds == {"Plus", "Minus", "Star", "Slash", "LParen", "RParen", "Int", "Error", "Eof"}

\* impl Display for TokenKind (the backquote of the source is written as an apostrophe)
TokenKind_fmt(kind) ==
    CASE kind = "Plus" -> "'+'"
      [] kind = "Minus" -> "'-'"
      [] kind = "Star" -> "'*'"
      [] kind = "Slash" -> "'/'"
      [] kind = "LParen" -> "'('"
      [] kind = "RParen" -> "')'"
      [] kind = "Int" -> "integer literal"
      [] kind = "Error" -> "error"
      [] kind = "Eof" -> "end of input"

Token_new(span, kind, value) == [span |-> span, kind |-> kind, value |-> value]
Token_simple(span, kind) == Token_new(span, kind, [tag |-> "None"])
Token_int(span, value) == Token_new(span, "Int", [tag |-> "Int", int |-> value])
Token_eof(span) == Token_simple(span, "Eof")

\* the token of a single character that is not a digit (the match in Scanner::scan)
SimpleKind(ch) ==
    CASE ch = "+" -> "Plus"
      [] ch = "-" -> "Minus"
      [] ch = "*" -> "Star"
      [] ch = "/" -> "Slash"
      [] ch = "(" -> "LParen"
      [] ch = ")" -> "RParen"
      [] OTHER -> "Error"

\* Token::int_value (panics on a token without an integer value)
int_value(token) == token.value.int

(***************************************************************************)
(* AST                                                                     *)
(***************************************************************************)
\* the operators of Minus and Plus exchanged
BinaryOpFromTokenExchanged(token) ==
    CASE token.kind = "Plus" -> "Sub"
      [] token.kind = "Minus" -> "Add"
      [] token.kind = "Star" -> "Mul"
      [] token.kind = "Slash" -> "Div"

\* BinaryOp::from_token (panics on any other token)
BinaryOp_from_token(token) ==
    CASE token.kind = "Plus" -> "Add"
      [] token.kind = "Minus" -> "Sub"
      [] token.kind = "Star" -> "Mul"
      [] token.kind = "Slash" -> "Div"

Expr_int(span, value) == [type |-> "Int", span |-> span, value |-> value]
Expr_group(span, expr) == [type |-> "Group", span |-> span, expr |-> expr]
Expr_binary(span, op, left, right) ==
    [type |-> "Binary", span |-> span, op |-> op, left |-> left, right |-> right]

(***************************************************************************)
(* Scanner::scan, one character at a time.  spc = "idle": no scan call is   *)
(* running; "skip": in skip_whitespace; "int": in scan_int_rest.           *)
(***************************************************************************)
\* Scanner::peek
HasPeek == pos < Len(input)
Peek == input[pos + 1]

\* pos advanced by the character's length in bytes
Scanner_next_pos_in_bytes == pos + Utf8Len(Peek)

\* Scanner::next on character ch: self.pos += 1 ...
Scanner_next_pos == pos + 1
\* a line start recorded at a carriage return as well
Scanner_next_lines_at_cr(ch) ==
    IF ch = "\n" \/ ch = "\r" THEN add_line_start(line_starts, pos + 1) ELSE line_starts

\* the line start recorded at the offset of the line feed itself
Scanner_next_lines_at_lf(ch) ==
    IF ch = "\n" THEN add_line_start(line_starts, pos) ELSE line_starts

\* ... and the line start it records when ch is a line feed
Scanner_next_lines(ch) ==
    IF ch = "\n" THEN add_line_start(line_starts, pos + 1) ELSE line_starts

\* Parser::advance calls Scanner::scan ...
CallScan == spc' = "skip" /\ UNCHANGED scanned
\* ... and puts the token it returns into current, returning the old one
Advance(token) ==
    /\ advanced' = current
    /\ current' = token
    /\ spc' = "idle"
    /\ scanned' = Append(scanned, token)

\* skip_whitespace: one iteration of its loop
ScanSkipWhitespace ==
    /\ spc = "skip"
    /\ HasPeek /\ is_whitespace(Peek)
    /\ pos' = Scanner_next_pos
    /\ line_starts' = Scanner_next_lines(Peek)
    /\ UNCHANGED <<input, call_vars, cmp_vars, start_pos, spc, scanned, ivalue, parser_vars, phase, eval_vars, result, map_vars>>

\* scan without its call of start: start_pos stays where it was
ScanTokenWithoutStart ==
    /\ spc = "skip"
    /\ ~(HasPeek /\ is_whitespace(Peek))
    /\ UNCHANGED start_pos
    /\ IF ~HasPeek
       THEN /\ Advance(Token_eof(Span_new(start_pos, pos)))
            /\ UNCHANGED <<pos, line_starts, ivalue>>
       ELSE /\ pos' = Scanner_next_pos
            /\ line_starts' = Scanner_next_lines(Peek)
            /\ IF is_digit(Peek)
               THEN /\ ivalue' = to_digit(Peek)
                    /\ spc' = "int"
                    /\ UNCHANGED <<current, advanced, scanned>>
               ELSE /\ Advance(Token_simple(Span_new(start_pos, Scanner_next_pos), SimpleKind(Peek)))
                    /\ UNCHANGED ivalue
    /\ UNCHANGED <<input, call_vars, cmp_vars, stack, ret, phase, eval_vars, result, map_vars>>

\* scan giving Eof the span of the one character after the end of the input
ScanTokenEofOneWide ==
    /\ spc = "skip"
    /\ ~(HasPeek /\ is_whitespace(Peek))
    /\ start_pos' = pos
    /\ IF ~HasPeek
       THEN /\ Advance(Token_eof(Span_new(pos, pos + 1)))
            /\ pos' = pos + 1
            /\ UNCHANGED <<line_starts, ivalue>>
       ELSE /\ pos' = Scanner_next_pos
            /\ line_starts' = Scanner_next_lines(Peek)
            /\ IF is_digit(Peek)
               THEN /\ ivalue' = to_digit(Peek)
                    /\ spc' = "int"
                    /\ UNCHANGED <<current, advanced, scanned>>
               ELSE /\ Advance(Token_simple(Span_new(pos, Scanner_next_pos), SimpleKind(Peek)))
                    /\ UNCHANGED ivalue
    /\ UNCHANGED <<input, call_vars, cmp_vars, stack, ret, phase, eval_vars, result, map_vars>>

\* scan returning the Error token without taking its character
ScanTokenErrorNotConsumed ==
    /\ spc = "skip"
    /\ ~(HasPeek /\ is_whitespace(Peek))
    /\ start_pos' = pos
    /\ IF ~HasPeek
       THEN /\ Advance(Token_eof(Span_new(pos, pos)))
            /\ UNCHANGED <<pos, line_starts, ivalue>>
       ELSE IF is_digit(Peek)
       THEN /\ pos' = Scanner_next_pos
            /\ line_starts' = Scanner_next_lines(Peek)
            /\ ivalue' = to_digit(Peek)
            /\ spc' = "int"
            /\ UNCHANGED <<current, advanced, scanned>>
       ELSE IF SimpleKind(Peek) = "Error"
       THEN /\ Advance(Token_simple(Span_new(pos, pos), "Error"))
            /\ UNCHANGED <<pos, line_starts, ivalue>>
       ELSE /\ pos' = Scanner_next_pos
            /\ line_starts' = Scanner_next_lines(Peek)
            /\ Advance(Token_simple(Span_new(pos, Scanner_next_pos), SimpleKind(Peek)))
            /\ UNCHANGED ivalue
    /\ UNCHANGED <<input, call_vars, cmp_vars, stack, ret, phase, eval_vars, result, map_vars>>

\* the rest of scan once skip_whitespace has ended: start, next, the match
ScanToken ==
    /\ spc = "skip"
    /\ ~(HasPeek /\ is_whitespace(Peek))
    /\ start_pos' = pos
    /\ IF ~HasPeek
       THEN /\ Advance(Token_eof(Span_new(pos, pos)))
            /\ UNCHANGED <<pos, line_starts, ivalue>>
       ELSE /\ pos' = Scanner_next_pos
            /\ line_starts' = Scanner_next_lines(Peek)
            /\ IF is_digit(Peek)
               THEN /\ ivalue' = to_digit(Peek)
                    /\ spc' = "int"
                    /\ UNCHANGED <<current, advanced, scanned>>
               ELSE /\ Advance(Token_simple(Span_new(pos, Scanner_next_pos), SimpleKind(Peek)))
                    /\ UNCHANGED ivalue
    /\ UNCHANGED <<input, call_vars, cmp_vars, stack, ret, phase, eval_vars, result, map_vars>>

\* scan_int_rest: one iteration of its loop
ScanIntRest ==
    /\ spc = "int"
    /\ HasPeek /\ is_digit(Peek)
    /\ pos' = Scanner_next_pos
    /\ line_starts' = Scanner_next_lines(Peek)
    /\ ivalue' = wrapping_add(wrapping_mul(ivalue, 10), to_digit(Peek))
    /\ UNCHANGED <<input, call_vars, cmp_vars, start_pos, spc, scanned, parser_vars, phase, eval_vars, result, map_vars>>

\* scan_int_rest: the loop has ended
ScanIntDone ==
    /\ spc = "int"
    /\ ~(HasPeek /\ is_digit(Peek))
    /\ Advance(Token_int(Span_new(start_pos, pos), ivalue))
    /\ UNCHANGED <<input, call_vars, cmp_vars, pos, start_pos, line_starts, ivalue, stack, ret, phase,
                   eval_vars, result, map_vars>>

ScannerNext == ScanSkipWhitespace \/ ScanToken \/ ScanIntRest \/ ScanIntDone

(***************************************************************************)
(* Parser.  The call stack holds one frame per running call of parse,      *)
(* parse_expr, parse_term and parse_factor: fn names the function, pc the  *)
(* place the call has reached, left and tok its locals.  A parser step     *)
(* waits for a running scan call to return (spc = "idle").                 *)
(***************************************************************************)
Frame(fn, pc) == [fn |-> fn, pc |-> pc, left |-> None, tok |-> None]

Top == stack[Len(stack)]
Pop == SubSeq(stack, 1, Len(stack) - 1)
SetTop(f) == [stack EXCEPT ![Len(stack)] = f]
Call(f, callee) == Append(SetTop(f), callee)

Running(fn, pc) ==
    /\ phase = "parse"
    /\ spc = "idle"
    /\ stack # <<>>
    /\ Top.fn = fn
    /\ Top.pc = pc

\* an error that runs from the token to the end of the input
ParserErrorToEndOfInput(spanned, message) ==
    Error_new(map_span(line_starts, Span_new(spanned.span.start, Len(input))), message)

\* Parser::error
Parser_error(spanned, message) == Error_new(map_span(line_starts, spanned.span), message)

\* the operators parse_expr and parse_term pass to accept_any
ExprOps == {"Plus", "Minus"}
TermOps == {"Star", "Slash"}
\* the operator sets of the two levels exchanged
LevelOpsSwapped(fn) == IF fn = "expr" THEN TermOps ELSE ExprOps
LevelOps(fn) == IF fn = "expr" THEN ExprOps ELSE TermOps
\* the production parse_expr and parse_term call for their operands
LevelCallee(fn) == IF fn = "expr" THEN "term" ELSE "factor"

\* the head of the while loop of parse_expr / parse_term with `left` set:
\* accept_any advances over an operator, or the function returns Ok(left)
LevelLoop(fn, left) ==
    IF current.kind \in LevelOps(fn)
    THEN /\ stack' = SetTop([Top EXCEPT !.pc = "op_adv", !.left = left])
         /\ CallScan
         /\ UNCHANGED ret
    ELSE /\ stack' = Pop
         /\ ret' = Ok(left)
         /\ UNCHANGED <<spc, scanned>>

\* parse_expr / parse_term: the call of the first operand
LevelBegin(fn) ==
    /\ Running(fn, "begin")
    /\ stack' = Call([Top EXCEPT !.pc = "left_ret"], Frame(LevelCallee(fn), "begin"))
    /\ UNCHANGED <<input, call_vars, cmp_vars, scanner_vars, current, advanced, ret, phase, eval_vars, result, map_vars>>

\* the first operand has returned: `?`, then the loop head
LevelLeft(fn) ==
    /\ Running(fn, "left_ret")
    /\ IF ret.tag = "Err"
       THEN stack' = Pop /\ UNCHANGED <<ret, spc, scanned>>
       ELSE LevelLoop(fn, ret.value)
    /\ UNCHANGED <<input, call_vars, cmp_vars, pos, start_pos, line_starts, ivalue, current, advanced, phase,
                   eval_vars, result, map_vars>>

\* accept_any's advance has returned the operator: the call of the right operand
LevelRightCall(fn) ==
    /\ Running(fn, "op_adv")
    /\ stack' = Call([Top EXCEPT !.pc = "right_ret", !.tok = advanced],
                     Frame(LevelCallee(fn), "begin"))
    /\ UNCHANGED <<input, call_vars, cmp_vars, scanner_vars, current, advanced, ret, phase, eval_vars, result, map_vars>>

\* the right operand has returned: `?`, the Binary node, then the loop head
LevelRight(fn) ==
    /\ Running(fn, "right_ret")
    /\ IF ret.tag = "Err"
       THEN stack' = Pop /\ UNCHANGED <<ret, spc, scanned>>
       ELSE LET right == ret.value
                span == Span_cover(Top.left.span, right.span)
            IN LevelLoop(fn, Expr_binary(span, BinaryOp_from_token(Top.tok), Top.left, right))
    /\ UNCHANGED <<input, call_vars, cmp_vars, pos, start_pos, line_starts, ivalue, current, advanced, phase,
                   eval_vars, result, map_vars>>

ExprBegin == LevelBegin("expr")
ExprLeft == LevelLeft("expr")
ExprRightCall == LevelRightCall("expr")
ExprRight == LevelRight("expr")

TermBegin == LevelBegin("term")
TermLeft == LevelLeft("term")
TermRightCall == LevelRightCall("term")
TermRight == LevelRight("term")

\* a wrong location for the error of expect: the token consumed last
ExpectErrorAtAdvanced(kind) ==
    Parser_error(advanced, "expected " \o TokenKind_fmt(kind))

\* expect, the current token is of another kind: the error at the current token
ExpectError(kind) ==
    Parser_error(current, "expected " \o TokenKind_fmt(kind))

\* a wrong message for the error of parse_factor: the closing parenthesis named
FactorErrorNamingRParen ==
    Parser_error(current,
        "expected " \o TokenKind_fmt("Int") \o " or " \o TokenKind_fmt("RParen"))

\* parse_factor, the current token is neither Int nor LParen: the error at it
FactorError ==
    Parser_error(current,
        "expected " \o TokenKind_fmt("Int") \o " or " \o TokenKind_fmt("LParen"))

\* parse_factor: the match on the current token's kind
FactorBegin ==
    /\ Running("factor", "begin")
    /\ CASE current.kind = "Int" ->
              /\ stack' = SetTop([Top EXCEPT !.pc = "int_adv"])
              /\ CallScan
              /\ UNCHANGED ret
         [] current.kind = "LParen" ->
              /\ stack' = SetTop([Top EXCEPT !.pc = "lparen_adv"])
              /\ CallScan
              /\ UNCHANGED ret
         [] OTHER ->
              /\ stack' = Pop
              /\ ret' = Err(FactorError)
              /\ UNCHANGED <<spc, scanned>>
    /\ UNCHANGED <<input, call_vars, cmp_vars, pos, start_pos, line_starts, ivalue, current, advanced, phase,
                   eval_vars, result, map_vars>>

\* parse_factor, Int: advance has returned the literal
FactorInt ==
    /\ Running("factor", "int_adv")
    /\ stack' = Pop
    /\ ret' = Ok(Expr_int(advanced.span, int_value(advanced)))
    /\ UNCHANGED <<input, call_vars, cmp_vars, scanner_vars, current, advanced, phase, eval_vars, result, map_vars>>

\* parse_factor, LParen: advance has returned the `(`: the call of parse_expr
FactorGroupCall ==
    /\ Running("factor", "lparen_adv")
    /\ stack' = Call([Top EXCEPT !.pc = "inner_ret", !.tok = advanced], Frame("expr", "begin"))
    /\ UNCHANGED <<input, call_vars, cmp_vars, scanner_vars, current, advanced, ret, phase, eval_vars, result, map_vars>>

\* parse_factor, LParen: parse_expr has returned: `?`, then expect(RParen)
FactorExpect ==
    /\ Running("factor", "inner_ret")
    /\ IF ret.tag = "Err"
       THEN stack' = Pop /\ UNCHANGED <<ret, spc, scanned>>
       ELSE IF current.kind = "RParen"
       THEN /\ stack' = SetTop([Top EXCEPT !.pc = "rparen_adv", !.left = ret.value])
            /\ CallScan
            /\ UNCHANGED ret
       ELSE /\ stack' = Pop
            /\ ret' = Err(ExpectError("RParen"))
            /\ UNCHANGED <<spc, scanned>>
    /\ UNCHANGED <<input, call_vars, cmp_vars, pos, start_pos, line_starts, ivalue, current, advanced, phase,
                   eval_vars, result, map_vars>>

\* parse_factor, LParen: expect's advance has returned the `)`: the Group node
FactorGroup ==
    /\ Running("factor", "rparen_adv")
    /\ stack' = Pop
    /\ ret' = Ok(Expr_group(Span_cover(Top.tok.span, advanced.span), Top.left))
    /\ UNCHANGED <<input, call_vars, cmp_vars, scanner_vars, current, advanced, phase, eval_vars, result, map_vars>>

\* parse: the advance that primes the lookahead
ParseAdvance ==
    /\ Running("parse", "begin")
    /\ stack' = SetTop([Top EXCEPT !.pc = "primed"])
    /\ CallScan
    /\ UNCHANGED <<input, call_vars, cmp_vars, pos, start_pos, line_starts, ivalue, current, advanced, ret, phase,
                   eval_vars, result, map_vars>>

\* parse: the call of parse_expr
ParseExprCall ==
    /\ Running("parse", "primed")
    /\ stack' = Call([Top EXCEPT !.pc = "expr_ret"], Frame("expr", "begin"))
    /\ UNCHANGED <<input, call_vars, cmp_vars, scanner_vars, current, advanced, ret, phase, eval_vars, result, map_vars>>

\* parse without its expect(Eof): whatever parse_expr returned is returned
ParseExpectSkipped ==
    /\ Running("parse", "expr_ret")
    /\ stack' = Pop
    /\ UNCHANGED <<input, call_vars, cmp_vars, scanner_vars, current, advanced, ret, phase, eval_vars, result,
                   map_vars>>

\* parse: parse_expr has returned: `?`, then expect(Eof)
ParseExpect ==
    /\ Running("parse", "expr_ret")
    /\ IF ret.tag = "Err"
       THEN stack' = Pop /\ UNCHANGED <<ret, spc, scanned>>
       ELSE IF current.kind = "Eof"
       THEN /\ stack' = SetTop([Top EXCEPT !.pc = "eof_adv", !.left = ret.value])
            /\ CallScan
            /\ UNCHANGED ret
       ELSE /\ stack' = Pop
            /\ ret' = Err(ExpectError("Eof"))
            /\ UNCHANGED <<spc, scanned>>
    /\ UNCHANGED <<input, call_vars, cmp_vars, pos, start_pos, line_starts, ivalue, current, advanced, phase,
                   eval_vars, result, map_vars>>

\* parse: expect's advance has returned: Ok(expr)
ParseReturn ==
    /\ Running("parse", "eof_adv")
    /\ stack' = Pop
    /\ ret' = Ok(Top.left)
    /\ UNCHANGED <<input, call_vars, cmp_vars, scanner_vars, current, advanced, phase, eval_vars, result, map_vars>>

ParserNext ==
    \/ ParseAdvance \/ ParseExprCall \/ ParseExpect \/ ParseReturn
    \/ ExprBegin \/ ExprLeft \/ ExprRightCall \/ ExprRight
    \/ TermBegin \/ TermLeft \/ TermRightCall \/ TermRight
    \/ FactorBegin \/ FactorInt \/ FactorGroupCall \/ FactorExpect \/ FactorGroup

(***************************************************************************)
(* Evaluator.  estack holds one frame per running eval_expr call: expr the *)
(* node, pc the place reached, left the value of the left operand.         *)
(***************************************************************************)
EFrame(expr) == [expr |-> expr, pc |-> "begin", left |-> 0]

ETop == estack[Len(estack)]
EPop == SubSeq(estack, 1, Len(estack) - 1)
ESetTop(f) == [estack EXCEPT ![Len(estack)] = f]
ECall(f, expr) == Append(ESetTop(f), EFrame(expr))

Evaluating(type, pc) ==
    /\ phase = "eval"
    /\ estack # <<>>
    /\ ETop.pc = pc
    /\ ETop.expr.type = type

\* Evaluator::error
Evaluator_error(spanned, message) == Error_new(map_span(line_starts, spanned.span), message)

\* the match on expr.op in eval_binary_expr
BinaryResult(expr, left, right) ==
    CASE expr.op = "Add" -> Ok(wrapping_add(left, right))
      [] expr.op = "Sub" -> Ok(wrapping_sub(left, right))
      [] expr.op = "Mul" -> Ok(wrapping_mul(left, right))
      [] expr.op = "Div" ->
            IF right = 0
            THEN Err(Evaluator_error(expr, "division by zero"))
            ELSE Ok(wrapping_div(left, right))

\* Evaluator::eval: eval_expr(self.ast)
EvalBegin ==
    /\ phase = "eval"
    /\ estack = <<>>
    /\ eret = None
    /\ estack' = <<EFrame(ast)>>
    /\ visited' = Append(visited, ast)
    /\ UNCHANGED <<input, call_vars, cmp_vars, scanner_vars, parser_vars, phase, ast, eret, result, map_vars>>

\* eval_int_expr
EvalIntExpr ==
    /\ Evaluating("Int", "begin")
    /\ estack' = EPop
    /\ eret' = Ok(ETop.expr.value)
    /\ UNCHANGED <<input, call_vars, cmp_vars, scanner_vars, parser_vars, phase, ast, visited, result, map_vars>>

\* eval_group_expr: the call of eval_expr on the inner expression
EvalGroupExpr ==
    /\ Evaluating("Group", "begin")
    /\ estack' = ECall([ETop EXCEPT !.pc = "inner_ret"], ETop.expr.expr)
    /\ visited' = Append(visited, ETop.expr.expr)
    /\ UNCHANGED <<input, call_vars, cmp_vars, scanner_vars, parser_vars, phase, ast, eret, result, map_vars>>

\* eval_group_expr: returns what the inner call returned
EvalGroupReturn ==
    /\ Evaluating("Group", "inner_ret")
    /\ estack' = EPop
    /\ UNCHANGED <<input, call_vars, cmp_vars, scanner_vars, parser_vars, phase, ast, eret, visited, result, map_vars>>

\* eval_binary_expr: the call of eval_expr on the left operand
EvalBinaryLeft ==
    /\ Evaluating("Binary", "begin")
    /\ estack' = ECall([ETop EXCEPT !.pc = "left_ret"], ETop.expr.left)
    /\ visited' = Append(visited, ETop.expr.left)
    /\ UNCHANGED <<input, call_vars, cmp_vars, scanner_vars, parser_vars, phase, ast, eret, result, map_vars>>

\* eval_binary_expr that gives 0 * r without evaluating r
EvalBinaryRightShortCircuit ==
    /\ Evaluating("Binary", "left_ret")
    /\ IF eret.tag = "Err" \/ (ETop.expr.op = "Mul" /\ eret.value = 0)
       THEN estack' = EPop /\ UNCHANGED visited
       ELSE /\ estack' = ECall([ETop EXCEPT !.pc = "right_ret", !.left = eret.value],
                               ETop.expr.right)
            /\ visited' = Append(visited, ETop.expr.right)
    /\ UNCHANGED <<input, call_vars, cmp_vars, scanner_vars, parser_vars, phase, ast, eret, result, map_vars>>

\* eval_binary_expr: the left operand has returned: `?`, then the right operand
EvalBinaryRight ==
    /\ Evaluating("Binary", "left_ret")
    /\ IF eret.tag = "Err"
       THEN estack' = EPop /\ UNCHANGED visited
       ELSE /\ estack' = ECall([ETop EXCEPT !.pc = "right_ret", !.left = eret.value],
                               ETop.expr.right)
            /\ visited' = Append(visited, ETop.expr.right)
    /\ UNCHANGED <<input, call_vars, cmp_vars, scanner_vars, parser_vars, phase, ast, eret, result, map_vars>>

\* eval_binary_expr: the right operand has returned: `?`, then the operator
EvalBinaryOp ==
    /\ Evaluating("Binary", "right_ret")
    /\ estack' = EPop
    /\ IF eret.tag = "Err"
       THEN UNCHANGED eret
       ELSE eret' = BinaryResult(ETop.expr, ETop.left, eret.value)
    /\ UNCHANGED <<input, call_vars, cmp_vars, scanner_vars, parser_vars, phase, ast, visited, result, map_vars>>

\* Evaluator::eval returns; eval's `?` and Ok(value)
EvalReturn ==
    /\ phase = "eval"
    /\ estack = <<>>
    /\ eret # None
    /\ result' = eret
    /\ phase' = "done"
    /\ UNCHANGED <<input, call_vars, cmp_vars, scanner_vars, parser_vars, eval_vars, map_vars>>

EvaluatorNext ==
    \/ EvalBegin \/ EvalIntExpr \/ EvalGroupExpr \/ EvalGroupReturn
    \/ EvalBinaryLeft \/ EvalBinaryRight \/ EvalBinaryOp \/ EvalReturn

\* eval with the parse error replaced by a default tree instead of returned
EvalParsedDefault ==
    /\ phase = "parse"
    /\ stack = <<>>
    /\ ast' = IF ret.tag = "Err" THEN Expr_int(Span_new(0, 0), 0) ELSE ret.value
    /\ phase' = "eval"
    /\ UNCHANGED <<input, call_vars, cmp_vars, scanner_vars, parser_vars, estack, eret, visited, result, map_vars>>

(***************************************************************************)
(* eval (lib.rs)                                                           *)
(***************************************************************************)
\* eval handing the evaluator a source map of its own instead of the parser's
EvalParsedNewMap ==
    /\ phase = "parse"
    /\ stack = <<>>
    /\ IF ret.tag = "Err"
       THEN /\ result' = ret
            /\ phase' = "done"
            /\ UNCHANGED <<ast, line_starts>>
       ELSE /\ ast' = ret.value
            /\ phase' = "eval"
            /\ line_starts' = SourceMap_new
            /\ UNCHANGED result
    /\ UNCHANGED <<input, call_vars, cmp_vars, pos, start_pos, spc, ivalue, scanned, parser_vars,
                   estack, eret, visited, map_vars>>

\* Parser::parse has returned: `?` returns its error, else the AST goes to the evaluator
EvalParsed ==
    /\ phase = "parse"
    /\ stack = <<>>
    /\ IF ret.tag = "Err"
       THEN /\ result' = ret
            /\ phase' = "done"
            /\ UNCHANGED ast
       ELSE /\ ast' = ret.value
            /\ phase' = "eval"
            /\ UNCHANGED result
    /\ UNCHANGED <<input, call_vars, cmp_vars, scanner_vars, parser_vars, estack, eret, visited, map_vars>>

(***************************************************************************)
(* SourceMap::map_pos, one loop iteration at a time                        *)
(***************************************************************************)
MapPosBegin ==
    /\ phase = "map"
    /\ mpc = "begin"
    /\ mstate' = MapPosInit(line_starts)
    /\ mpc' = "loop"
    /\ UNCHANGED <<input, call_vars, cmp_vars, scanner_vars, parser_vars, phase, eval_vars, result, mquery, mresult>>

MapPosStep ==
    /\ phase = "map"
    /\ mpc = "loop"
    /\ mstate.size > 0
    /\ mstate' = MapPosIter(line_starts, mquery, mstate)
    /\ UNCHANGED <<input, call_vars, cmp_vars, scanner_vars, parser_vars, phase, eval_vars, result, mquery, mpc, mresult>>

MapPosReturn ==
    /\ phase = "map"
    /\ mpc = "loop"
    /\ mstate.size = 0
    /\ mresult' = MapPosResult(line_starts, mquery, mstate)
    /\ mpc' = "done"
    /\ UNCHANGED <<input, call_vars, cmp_vars, scanner_vars, parser_vars, phase, eval_vars, result, mquery, mstate>>

MapNext == MapPosBegin \/ MapPosStep \/ MapPosReturn

(***************************************************************************)
(* The texts eval is run on                                                *)
(***************************************************************************)
\* every text over the characters of A up to length n
AllTexts(A, n) == UNION {[1..k -> A] : k \in 0..n}

Alphabet == {"0", "1", "+", "/", "(", ")", "\n", "%"}
LineAlphabet == {"1", "0", "/", "\n"}

GrammarDigits == {"1", "2", "3"}

RECURSIVE ExprTexts(_), TermTexts(_), FactorTexts(_)
\* the texts of at most n tokens the grammar derives from Expr, Term and Factor
\* (one character per token)
ExprTexts(n) ==
    IF n < 1 THEN {}
    ELSE TermTexts(n) \cup
         UNION {{e \o <<op>> \o t : op \in {"+", "-"}, t \in TermTexts(n - 1 - Len(e))}
                : e \in ExprTexts(n - 2)}
TermTexts(n) ==
    IF n < 1 THEN {}
    ELSE FactorTexts(n) \cup
         UNION {{t \o <<op>> \o f : op \in {"*", "/"}, f \in FactorTexts(n - 1 - Len(t))}
                : t \in TermTexts(n - 2)}
FactorTexts(n) ==
    IF n < 1 THEN {}
    ELSE {<<d>> : d \in GrammarDigits} \cup
         {<<"(">> \o e \o <<")">> : e \in ExprTexts(n - 2)}

RECURSIVE DecimalDigits(_)
\* the decimal digits of -m, for m <= 0
DecimalDigits(m) ==
    LET d == (10 - (m % 10)) % 10
        rest == (m + d) \div 10
        ch == CHOOSE c \in DOMAIN CodePoint : CodePoint[c] = 48 + d
    IN IF rest = 0 THEN <<ch>> ELSE DecimalDigits(rest) \o <<ch>>

\* the decimal text of n (i32's Display)
DecimalText(n) == IF n < 0 THEN <<"-">> \o DecimalDigits(n) ELSE DecimalDigits(-n)

LitSamples ==
    (-MaxLit..MaxLit) \cup {INT_MIN + k : k \in 0..MaxLit} \cup {INT_MAX - k : k \in 0..MaxLit}

\* the texts of the examples of the documentation and the tests
ExampleInputs == {
    <<"(", "1", " ", "+", " ", "2", ")", " ", "*", " ", "3">>,
    <<"(", "1", " ", "+", " ", "2">>,
    <<"(", "1", " ", "+", " ", "2", "%">>,
    <<"1", " ", "/", " ", "0">>,
    <<"1", " ", "/", " ", "0", " ", ")">>,
    <<"1", " ", "+", "\n", "2", " ", "+", "\n", "3">>,
    <<"1", " ", "+", " ", "2", "%">>,
    <<"1", " ", "+", " ">>,
    <<"1", "\t", "*", "\r", "\n", "%">>,
    <<"2", "1", "4", "7", "4", "8", "3", "6", "4", "8">>,
    <<"2", "1", "4", "7", "4", "8", "3", "6", "4", "7", " ", "+", " ", "1">>,
    <<"0", " ", "*", " ", "(", "1", " ", "/", " ", "0", ")">> }

\* texts in which more than one division has a zero divisor
OrderInputs == {
    <<"1", "/", "0", "+", "2", "/", "0">>,
    <<"(", "1", "/", "0", ")", "*", "(", "2", "/", "0", ")">>,
    <<"1", "-", "(", "2", "/", "0", ")", "/", "0">> }

Inputs ==
    AllTexts(Alphabet, MaxLen) \cup AllTexts(LineAlphabet, MaxLineLen)
        \cup ExprTexts(MaxTokens) \cup {DecimalText(n) : n \in LitSamples}
        \cup ExampleInputs \cup OrderInputs

(***************************************************************************)
(* Spec: eval on a text                                                    *)
(***************************************************************************)
Init ==
    /\ input \in Inputs
    /\ pos = 0
    /\ start_pos = 0
    /\ line_starts = SourceMap_new
    /\ spc = "idle"
    /\ ivalue = 0
    /\ current = Token_eof(Span_new(0, 0))
    /\ advanced = None
    /\ stack = <<Frame("parse", "begin")>>
    /\ ret = None
    /\ phase = "parse"
    /\ ast = None
    /\ estack = <<>>
    /\ eret = None
    /\ result = None
    /\ mquery = 0
    /\ mstate = MapPosInit(SourceMap_new)
    /\ mpc = "idle"
    /\ mresult = None
    /\ scanned = <<>>
    /\ calls = <<>>
    /\ returned = <<>>
    /\ cmp_in = None
    /\ cmp_out = <<>>
    /\ visited = <<>>

Next == ScannerNext \/ ParserNext \/ EvalParsed \/ EvaluatorNext

Spec == Init /\ [][Next]_vars

(***************************************************************************)
(* EvalSpec: Evaluator::eval on an AST, as the evaluator's tests run it    *)
(* (a new source map, the spans of `1 + 2`)                                *)
(***************************************************************************)
I32Samples ==
    (-MaxSmall..MaxSmall) \cup {INT_MIN + k : k \in 0..MaxSmall}
        \cup {INT_MAX - k : k \in 0..MaxSmall} \cup {-65536, -46341, 46341, 65536}

BinaryOps == {"Add", "Sub", "Mul", "Div"}

\* Binary(op, Int(l), Int(r)) with the spans of the tests
TestBinary(op, l, r) ==
    Expr_binary(Span_new(0, 5), op, Expr_int(Span_new(0, 1), l), Expr_int(Span_new(4, 5), r))

EvalAsts ==
    {TestBinary(op, l, r) : op \in BinaryOps, l \in I32Samples, r \in I32Samples}
        \cup {Expr_group(Span_new(0, 7), TestBinary(op, l, r))
                : op \in BinaryOps, l \in {INT_MIN, 1}, r \in {-1, 0}}

EvalInit ==
    /\ ast \in EvalAsts
    /\ phase = "eval"
    /\ input = <<>>
    /\ pos = 0
    /\ start_pos = 0
    /\ line_starts = SourceMap_new
    /\ spc = "idle"
    /\ ivalue = 0
    /\ current = Token_eof(Span_new(0, 0))
    /\ advanced = None
    /\ stack = <<>>
    /\ ret = None
    /\ estack = <<>>
    /\ eret = None
    /\ result = None
    /\ mquery = 0
    /\ mstate = MapPosInit(SourceMap_new)
    /\ mpc = "idle"
    /\ mresult = None
    /\ scanned = <<>>
    /\ calls = <<>>
    /\ returned = <<>>
    /\ cmp_in = None
    /\ cmp_out = <<>>
    /\ visited = <<>>

EvalSpec == EvalInit /\ [][EvaluatorNext]_vars

(***************************************************************************)
(* MapSpec: map_pos on a source map holding any strictly increasing        *)
(* line-start sequence that begins with 0                                  *)
(***************************************************************************)
RECURSIVE Ascending(_)
\* the elements of the set S of numbers in increasing order
Ascending(S) ==
    IF S = {} THEN <<>>
    ELSE LET m == CHOOSE x \in S : \A y \in S : x <= y
         IN <<m>> \o Ascending(S \ {m})

LineStartSeqs ==
    {<<0>> \o Ascending(S) : S \in {T \in SUBSET (1..MaxOffset) : Cardinality(T) < MaxLines}}

MapInit ==
    /\ line_starts \in LineStartSeqs
    /\ mquery \in 0..MaxOffset
    /\ mstate = MapPosInit(SourceMap_new)
    /\ mpc = "begin"
    /\ mresult = None
    /\ scanned = <<>>
    /\ calls = <<>>
    /\ returned = <<>>
    /\ cmp_in = None
    /\ cmp_out = <<>>
    /\ visited = <<>>
    /\ phase = "map"
    /\ input = <<>>
    /\ pos = 0
    /\ start_pos = 0
    /\ spc = "idle"
    /\ ivalue = 0
    /\ current = Token_eof(Span_new(0, 0))
    /\ advanced = None
    /\ stack = <<>>
    /\ ret = None
    /\ ast = None
    /\ estack = <<>>
    /\ eret = None
    /\ result = None

MapSpec == MapInit /\ [][MapNext]_vars

(***************************************************************************)
(* What the documentation says of a text, stated on the text itself:       *)
(* its tokens, the first token the grammar cannot accept, its value with   *)
(* the usual precedence and associativity, its lines and columns.          *)
(***************************************************************************)
RefWhitespace == {" ", "\t", "\r", "\n"}
RefDigits == <<"0", "1", "2", "3", "4", "5", "6", "7", "8", "9">>
RefIsDigit(ch) == \E i \in 1..10 : RefDigits[i] = ch
RefDigit(ch) == (CHOOSE i \in 1..10 : RefDigits[i] = ch) - 1
RefKind(ch) ==
    CASE ch = "+" -> "Plus" [] ch = "-" -> "Minus" [] ch = "*" -> "Star"
      [] ch = "/" -> "Slash" [] ch = "(" -> "LParen" [] ch = ")" -> "RParen"
      [] OTHER -> "Error"

RECURSIVE RefRunEnd(_, _)
\* the end of the maximal run of digits that holds offset p
RefRunEnd(text, p) ==
    IF p < Len(text) /\ RefIsDigit(text[p + 1]) THEN RefRunEnd(text, p + 1) ELSE p

RECURSIVE RefHalves(_, _, _)
\* the digits text[a+1 .. b] read as a decimal number, modulo 2^32, as its upper
\* and lower 16 bits
RefHalves(text, a, b) ==
    IF b = a THEN <<0, 0>>
    ELSE LET prev == RefHalves(text, a, b - 1)
             lo == prev[2] * 10 + RefDigit(text[b])
             hi == prev[1] * 10 + (lo \div 65536)
         IN <<hi % 65536, lo % 65536>>

\* the value of the digits text[a+1 .. b], as a 32-bit two's complement integer
RefLiteral(text, a, b) ==
    LET h == RefHalves(text, a, b)
    IN IF h[1] >= 32768 THEN (h[1] - 65536) * 65536 + h[2] ELSE h[1] * 65536 + h[2]

RECURSIVE RefTokensFrom(_, _)
\* the tokens of the text from offset p on, Eof last
RefTokensFrom(text, p) ==
    IF p >= Len(text)
    THEN <<[kind |-> "Eof", start |-> p, end |-> p, value |-> 0]>>
    ELSE LET ch == text[p + 1]
         IN IF ch \in RefWhitespace THEN RefTokensFrom(text, p + 1)
            ELSE IF RefIsDigit(ch)
            THEN LET e == RefRunEnd(text, p)
                 IN <<[kind |-> "Int", start |-> p, end |-> e, value |-> RefLiteral(text, p, e)]>>
                        \o RefTokensFrom(text, e)
            ELSE <<[kind |-> RefKind(ch), start |-> p, end |-> p + 1, value |-> 0]>>
                        \o RefTokensFrom(text, p + 1)

RefTokens(text) == RefTokensFrom(text, 0)

RefOperators == {"Plus", "Minus", "Star", "Slash"}

RECURSIVE RefAccept(_, _, _, _)
\* reading the tokens from the i-th on, inside `depth` open parentheses, with a
\* Factor expected (operand) or an operator, `)` or the end: "ok", or the reason
\* and the index of the first token that cannot follow
RefAccept(toks, i, depth, operand) ==
    LET k == toks[i].kind
    IN IF operand
       THEN IF k = "Int" THEN RefAccept(toks, i + 1, depth, FALSE)
            ELSE IF k = "LParen" THEN RefAccept(toks, i + 1, depth + 1, TRUE)
            ELSE [kind |-> "factor", at |-> i]
       ELSE IF k \in RefOperators THEN RefAccept(toks, i + 1, depth, TRUE)
            ELSE IF depth > 0
            THEN IF k = "RParen" THEN RefAccept(toks, i + 1, depth - 1, FALSE)
                 ELSE [kind |-> "rparen", at |-> i]
            ELSE IF k = "Eof" THEN [kind |-> "ok", at |-> i]
                 ELSE [kind |-> "eof", at |-> i]

RefParse(text) == RefAccept(RefTokens(text), 1, 0, TRUE)

\* the number of parentheses open before the k-th token, counted from the a-th
RefDepth(toks, a, k) ==
    Cardinality({i \in a..(k - 1) : toks[i].kind = "LParen"})
        - Cardinality({i \in a..(k - 1) : toks[i].kind = "RParen"})

RefTopLevel(toks, a, b, kinds) ==
    {k \in a..b : toks[k].kind \in kinds /\ RefDepth(toks, a, k) = 0}

RefLast(S) == CHOOSE k \in S : \A j \in S : j <= k

RefApply(kind, l, r) ==
    CASE kind = "Plus" -> wrapping_add(l, r)
      [] kind = "Minus" -> wrapping_sub(l, r)
      [] kind = "Star" -> wrapping_mul(l, r)
      [] kind = "Slash" -> wrapping_div(l, r)

RECURSIVE RefEval(_, _, _)
\* the value of the well-formed tokens a..b: split at the last + or - outside
\* parentheses, else at the last * or /, else a literal or a parenthesised
\* expression; or the span of the first division whose divisor is 0
RefEval(toks, a, b) ==
    LET adds == RefTopLevel(toks, a, b, {"Plus", "Minus"})
        muls == RefTopLevel(toks, a, b, {"Star", "Slash"})
        Split(k) ==
            LET l == RefEval(toks, a, k - 1)
                r == RefEval(toks, k + 1, b)
            IN IF l.tag = "Err" THEN l
               ELSE IF r.tag = "Err" THEN r
               ELSE IF toks[k].kind = "Slash" /\ r.value = 0
               THEN [tag |-> "Err", span |-> [start |-> toks[a].start, end |-> toks[b].end]]
               ELSE [tag |-> "Ok", value |-> RefApply(toks[k].kind, l.value, r.value)]
    IN IF adds # {} THEN Split(RefLast(adds))
       ELSE IF muls # {} THEN Split(RefLast(muls))
       ELSE IF toks[a].kind = "Int" THEN [tag |-> "Ok", value |-> toks[a].value]
       ELSE RefEval(toks, a + 1, b - 1)

\* the value of a well-formed text
RefValue(text) == LET toks == RefTokens(text) IN RefEval(toks, 1, Len(toks) - 1)

\* line and column of an offset: the line feeds of the text before it
RefPos(text, offset) ==
    LET lfs == {i \in 1..Min(offset, Len(text)) : text[i] = "\n"}
        last == IF lfs = {} THEN 0 ELSE RefLast(lfs)
    IN [offset |-> offset, line |-> Cardinality(lfs) + 1, column |-> offset - last + 1]

RefError(text, start, end, message) ==
    [span |-> [start |-> RefPos(text, start), end |-> RefPos(text, end)], message |-> message]

\* the error at the first token the grammar cannot accept
RefParseError(text, message) ==
    LET tok == RefTokens(text)[RefParse(text).at]
    IN [tag |-> "Err", error |-> RefError(text, tok.start, tok.end, message)]

Done == phase = "done"

(***************************************************************************)
(* C1: for every well-formed text in which no division by zero occurs,     *)
(* eval returns Ok of the value with * and / binding tighter than + and -, *)
(* equal precedence grouped left to right, parentheses overriding both.    *)
(***************************************************************************)
C1_Precedence ==
    (Done /\ RefParse(input).kind = "ok" /\ RefValue(input).tag = "Ok")
        => result = [tag |-> "Ok", value |-> RefValue(input).value]

\* "(1 + 2) * 3" has been evaluated to 9
C1_Witness ==
    /\ Done
    /\ input = <<"(", "1", " ", "+", " ", "2", ")", " ", "*", " ", "3">>
    /\ result = [tag |-> "Ok", value |-> 9]

(***************************************************************************)
(* Exact arithmetic modulo 2^32 on base-256 digits (lowest digit first)    *)
(***************************************************************************)
\* the four base-256 digits of x modulo 2^32
Bytes(x) == [i \in 0..3 |-> (x \div (256 ^ i)) % 256]

\* the lowest four digits of the numbers whose digit columns (with carries to add) are c
Carry(c) ==
    LET s0 == c[0]
        s1 == c[1] + (s0 \div 256)
        s2 == c[2] + (s1 \div 256)
        s3 == c[3] + (s2 \div 256)
    IN [i \in 0..3 |-> (CASE i = 0 -> s0 [] i = 1 -> s1 [] i = 2 -> s2 [] i = 3 -> s3) % 256]

SumBytes(a, b) == Carry([i \in 0..3 |-> a[i] + b[i]])

\* a - b = a + (2^32 - 1 - b) + 1 modulo 2^32
DifferenceBytes(a, b) ==
    Carry([i \in 0..3 |-> a[i] + (255 - b[i]) + (IF i = 0 THEN 1 ELSE 0)])

ProductBytes(a, b) ==
    Carry([i \in 0..3 |-> LET Col[j \in 0..3] ==
                                  IF j > i THEN 0
                                  ELSE a[j] * b[i - j] + (IF j = i THEN 0 ELSE Col[j + 1])
                          IN Col[0]])

ExactBytes(op, l, r) ==
    CASE op = "Add" -> SumBytes(Bytes(l), Bytes(r))
      [] op = "Sub" -> DifferenceBytes(Bytes(l), Bytes(r))
      [] op = "Mul" -> ProductBytes(Bytes(l), Bytes(r))

\* the Binary node of literals a test AST evaluates
TestNode == IF ast.type = "Group" THEN ast.expr ELSE ast

(***************************************************************************)
(* C2: for all 32-bit l and r, a Binary node with op Add, Sub or Mul        *)
(* evaluates to Ok of the exact result reduced modulo 2^32 into            *)
(* [-2^31, 2^31-1], never to an error.                                     *)
(***************************************************************************)
C2_WrappingAddSubMul ==
    (Done /\ TestNode.op \in {"Add", "Sub", "Mul"})
        => /\ result.tag = "Ok"
           /\ result.value >= INT_MIN /\ result.value <= INT_MAX
           /\ Bytes(result.value) = ExactBytes(TestNode.op, TestNode.left.value, TestNode.right.value)

\* 2147483647 + 1 has been evaluated to -2147483648
C2_Witness ==
    /\ Done
    /\ ast = TestBinary("Add", INT_MAX, 1)
    /\ result = [tag |-> "Ok", value |-> INT_MIN]

(***************************************************************************)
(* C3: a Div node whose right operand evaluates to 0 fails with "division  *)
(* by zero" at the resolved span of the whole binary expression, from the  *)
(* start of its left operand to the end of its right operand.              *)
(***************************************************************************)
C3_DivisionByZeroSpan ==
    (Done /\ RefParse(input).kind = "ok" /\ RefValue(input).tag = "Err")
        => LET span == RefValue(input).span
           IN result = [tag |-> "Err",
                        error |-> RefError(input, span.start, span.end, "division by zero")]

(***************************************************************************)
(* C4: for all 32-bit l and all r # 0, Div evaluates to Ok of the quotient  *)
(* truncated toward zero, except that -2147483648 / -1 gives -2147483648;  *)
(* never to an error.                                                      *)
(***************************************************************************)
NegAbs(x) == IF x > 0 THEN -x ELSE x

\* the quotient of the magnitudes, with the sign of the exact quotient
TruncatedQuotient(l, r) ==
    IF r = 1 THEN l
    ELSE IF r = -1 THEN -l
    ELSE LET m == NegAbs(l) \div NegAbs(r)
         IN IF (l < 0) # (r < 0) THEN -m ELSE m

C4_TruncatingDiv ==
    (Done /\ TestNode.op = "Div" /\ TestNode.right.value # 0)
        => LET l == TestNode.left.value
               r == TestNode.right.value
           IN result = [tag |-> "Ok",
                        value |-> IF l = INT_MIN /\ r = -1 THEN INT_MIN
                                  ELSE TruncatedQuotient(l, r)]

\* -3 / 2 has been evaluated to -1
C4_Witness ==
    /\ Done
    /\ ast = TestBinary("Div", -3, 2)
    /\ result = [tag |-> "Ok", value |-> -1]

\* the token at which the grammar stops accepting the text
RefStop(text) == RefTokens(text)[RefParse(text).at]

\* an error whose span is empty and lies at the end of the text
AtEndOfInput(r) ==
    /\ r.tag = "Err"
    /\ r.error.span.start = r.error.span.end
    /\ r.error.span.start.offset = Len(input)

(***************************************************************************)
(* C5: when, after `(` and a complete inner Expr, the current token is not *)
(* `)`, eval fails with "expected `)`" at the span of that token; at the   *)
(* end of the input that span is empty and lies at the end of the input.   *)
(***************************************************************************)
C5_MissingCloseParen ==
    (Done /\ RefParse(input).kind = "rparen")
        => /\ result = RefParseError(input, "expected ')'")
           /\ (RefStop(input).kind = "Eof" => AtEndOfInput(result))

\* "(1 + 2" has failed with "expected `)`" at 1:7-1:7
C5_Witness ==
    /\ Done
    /\ input = <<"(", "1", " ", "+", " ", "2">>
    /\ result = [tag |-> "Err",
                 error |-> [span |-> [start |-> [offset |-> 6, line |-> 1, column |-> 7],
                                      end |-> [offset |-> 6, line |-> 1, column |-> 7]],
                            message |-> "expected ')'"]]

(***************************************************************************)
(* C6: when a Factor is expected and the current token is neither Int nor  *)
(* `(` (an operator, `)`, an Error token or Eof, the empty input included),*)
(* eval fails with "expected integer literal or `(`" at the span of that   *)
(* token, which is empty and at the end of the input when the token is Eof.*)
(***************************************************************************)
C6_UnexpectedToken ==
    (Done /\ RefParse(input).kind = "factor")
        => /\ result = RefParseError(input, "expected integer literal or '('")
           /\ (RefStop(input).kind = "Eof" => AtEndOfInput(result))

\* the empty input has failed with the message at 1:1-1:1
C6_Witness ==
    /\ Done
    /\ input = <<>>
    /\ result = [tag |-> "Err",
                 error |-> [span |-> [start |-> [offset |-> 0, line |-> 1, column |-> 1],
                                      end |-> [offset |-> 0, line |-> 1, column |-> 1]],
                            message |-> "expected integer literal or '('"]]

(***************************************************************************)
(* C7: when, after a complete top-level Expr, the current token is not Eof,*)
(* eval fails with "expected end of input" at the span of that token; and  *)
(* parse returns Ok only when the whole input has been consumed.           *)
(***************************************************************************)
ParseReturned == phase = "parse" /\ stack = <<>>

C7_TrailingInput ==
    /\ (Done /\ RefParse(input).kind = "eof")
          => result = RefParseError(input, "expected end of input")
    /\ (ParseReturned /\ ret.tag = "Ok")
          => /\ RefParse(input).kind = "ok"
             /\ current.kind = "Eof"
             /\ pos = Len(input)

\* "1 + 2%" has failed with "expected end of input" at the `%`, 1:6-1:7
C7_Witness ==
    /\ Done
    /\ input = <<"1", " ", "+", " ", "2", "%">>
    /\ result = [tag |-> "Err",
                 error |-> [span |-> [start |-> [offset |-> 5, line |-> 1, column |-> 6],
                                      end |-> [offset |-> 6, line |-> 1, column |-> 7]],
                            message |-> "expected end of input"]]

(***************************************************************************)
(* C8: for every input on which parsing fails, eval returns exactly that   *)
(* parse error, the first one met in token order; the evaluator is never   *)
(* run, and no value or AST comes with the error.                          *)
(***************************************************************************)
RefMessage(kind) ==
    CASE kind = "rparen" -> "expected ')'"
      [] kind = "factor" -> "expected integer literal or '('"
      [] kind = "eof" -> "expected end of input"

EvaluatorIdle == ast = None /\ estack = <<>> /\ eret = None

C8_FailFast ==
    /\ (ParseReturned /\ ret.tag = "Err")
          => ret = RefParseError(input, RefMessage(RefParse(input).kind))
    /\ (phase # "parse" /\ RefParse(input).kind # "ok")
          => /\ Done
             /\ result = RefParseError(input, RefMessage(RefParse(input).kind))
             /\ DOMAIN result = {"tag", "error"}
             /\ EvaluatorIdle

\* "1 / 0 )" has failed with the syntax error at the `)`, the division never evaluated
C8_Witness ==
    /\ Done
    /\ input = <<"1", " ", "/", " ", "0", " ", ")">>
    /\ result.tag = "Err"
    /\ result.error.message = "expected end of input"
    /\ result.error.span.start.offset = 6
    /\ EvaluatorIdle

(***************************************************************************)
(* C9: for every line-start sequence that begins with 0 and is strictly    *)
(* increasing, and every offset, map_pos returns the line i + 1 of the     *)
(* greatest index i with line_starts[i] <= offset, and the column          *)
(* offset - line_starts[i] + 1.                                            *)
(***************************************************************************)
\* the greatest 1-based index whose line start is at or before the offset
RefLine(ls, offset) == RefLast({i \in 1..Len(ls) : ls[i] <= offset})

C9_MapPos ==
    (phase = "map" /\ mpc = "done")
        => LET i == RefLine(line_starts, mquery)
           IN mresult = [offset |-> mquery, line |-> i,
                         column |-> mquery - line_starts[i] + 1]

(***************************************************************************)
(* C10: for every integer n in [-2147483648, 2147483647], eval of the      *)
(* decimal text of n returns Ok(n).                                        *)
(***************************************************************************)
C10_LiteralRoundTrip ==
    \A n \in LitSamples :
        (Done /\ input = DecimalText(n)) => result = [tag |-> "Ok", value |-> n]

(***************************************************************************)
(* C10, amended: for every integer n in [0, 2147483647], eval of the       *)
(* decimal text of n returns Ok(n).                                        *)
(***************************************************************************)
C10_NonNegativeLiteralRoundTrip ==
    \A n \in {m \in LitSamples : m >= 0} :
        (Done /\ input = DecimalText(n)) => result = [tag |-> "Ok", value |-> n]

\* "2147483647" has been evaluated to 2147483647
C10_Witness ==
    /\ Done
    /\ input = <<"2", "1", "4", "7", "4", "8", "3", "6", "4", "7">>
    /\ result = [tag |-> "Ok", value |-> INT_MAX]

(***************************************************************************)
(* A caller that makes several calls, one after the other: eval (lib.rs),  *)
(* or a Scanner scanned until Eof as the scanner's tests do.  A call makes *)
(* its own SourceMap, Scanner and Parser; the locals of the functions      *)
(* (ivalue, advanced, ret, ast) hold whatever they held until the call     *)
(* assigns them.                                                           *)
(***************************************************************************)
\* a SourceMap that outlives the call: the line starts of the calls before stay
NewCallSharedMap(text) ==
    /\ input' = text
    /\ UNCHANGED line_starts
    /\ pos' = 0
    /\ start_pos' = 0
    /\ spc' = "idle"
    /\ scanned' = <<>>
    /\ visited' = <<>>
    /\ current' = Token_eof(Span_new(0, 0))
    /\ eret' = None
    /\ result' = None

\* what a call makes anew: the SourceMap, the Scanner, the Parser's current token
NewCall(text) ==
    /\ input' = text
    /\ line_starts' = SourceMap_new
    /\ pos' = 0
    /\ start_pos' = 0
    /\ spc' = "idle"
    /\ scanned' = <<>>
    /\ visited' = <<>>
    /\ current' = Token_eof(Span_new(0, 0))
    /\ eret' = None
    /\ result' = None

\* eval(text): SourceMap::new, Parser::new, and the call of parse
CallEval ==
    /\ phase = "idle"
    /\ calls # <<>>
    /\ Head(calls).mode = "eval"
    /\ NewCall(Head(calls).text)
    /\ stack' = <<Frame("parse", "begin")>>
    /\ phase' = "parse"
    /\ UNCHANGED <<ivalue, advanced, ret, ast, estack, map_vars, call_vars, cmp_vars>>

\* SourceMap::new and Scanner::new, as in the scanner's tests
CallScanner ==
    /\ phase = "idle"
    /\ calls # <<>>
    /\ Head(calls).mode = "scan"
    /\ NewCall(Head(calls).text)
    /\ phase' = "scan"
    /\ UNCHANGED <<ivalue, advanced, stack, ret, ast, estack, map_vars, call_vars, cmp_vars>>

EofScanned == scanned # <<>> /\ scanned[Len(scanned)].kind = "Eof"

\* the loop of the scanner's tests: scan again unless Eof was returned
ScanLoop ==
    /\ phase = "scan"
    /\ spc = "idle"
    /\ ~EofScanned
    /\ CallScan
    /\ UNCHANGED <<input, call_vars, cmp_vars, pos, start_pos, line_starts, ivalue, parser_vars, phase,
                   eval_vars, result, map_vars>>

\* the loop of the scanner's tests ends with Eof
ScanEnd ==
    /\ phase = "scan"
    /\ spc = "idle"
    /\ EofScanned
    /\ phase' = "done"
    /\ UNCHANGED <<input, call_vars, cmp_vars, scanner_vars, parser_vars, eval_vars, result, map_vars>>

\* the call has returned to the caller, which keeps what it returned
CallReturn ==
    /\ phase = "done"
    /\ calls # <<>>
    /\ returned' = Append(returned, [mode |-> Head(calls).mode, text |-> input,
                                      result |-> result, tokens |-> scanned])
    /\ calls' = Tail(calls)
    /\ phase' = "idle"
    /\ UNCHANGED <<input, scanner_vars, parser_vars, eval_vars, result, map_vars, cmp_vars>>

CallerNext == CallEval \/ CallScanner \/ ScanLoop \/ ScanEnd \/ CallReturn

EvalCall(text) == [mode |-> "eval", text |-> text]
ScanCall(text) == [mode |-> "scan", text |-> text]

(***************************************************************************)
(* The calls the caller makes.                                             *)
(***************************************************************************)
Spaced(op) == <<" ", op, " ">>

\* operands: the well-formed texts of up to three tokens over 2 and 3, and two literals
ComposeTexts ==
    {t \in ExprTexts(3) : \A i \in 1..Len(t) : t[i] # "1"}
        \cup {<<"0">>, <<"2", "1", "4", "7", "4", "8", "3", "6", "4", "7">>}

\* eval(a), eval(b), eval(a + " " + op + " " + b)
ComposeCalls ==
    {<<EvalCall(a), EvalCall(b), EvalCall(a \o Spaced(op) \o b)>>
        : a \in ComposeTexts, b \in ComposeTexts, op \in {"+", "-", "*", "/"}}

CallAlphabet == {"1", "0", "/", "(", "\n"}

CallTexts ==
    AllTexts(CallAlphabet, MaxCallLen)
        \cup {<<"1", "/", "0">>, <<"(", "1", "2", ")", "3">>, <<"1", "2", "+", "%">>,
               <<"(", "1", "+", "2", ")", "*", "3">>}

\* the texts evaluated between two calls on the same text
OtherTexts == {<<>>, <<"7">>, <<"(", "1">>, <<"\n", "\n", "\n", "1", "/", "0">>}

\* eval(t), eval(u), eval(t)
RepeatCalls == {<<EvalCall(t), EvalCall(u), EvalCall(t)>> : t \in CallTexts, u \in OtherTexts}

\* the offsets of a text that are not inside a token: not between two digits
Boundaries(t) ==
    {k \in 0..Len(t) : ~(k >= 1 /\ k < Len(t) /\ RefIsDigit(t[k]) /\ RefIsDigit(t[k + 1]))}

Insert(t, k, w) == SubSeq(t, 1, k) \o w \o SubSeq(t, k + 1, Len(t))

WhitespaceRuns ==
    {<<" ">>, <<"\t">>, <<"\r">>, <<"\n">>, <<"\r", "\n">>, <<"\n", " ", "\n">>}

\* eval and a scan until Eof, of t and of t with whitespace inserted at a boundary
SpaceCalls ==
    UNION {{<<EvalCall(t), EvalCall(Insert(t, k, w)), ScanCall(t), ScanCall(Insert(t, k, w))>>
               : k \in Boundaries(t), w \in WhitespaceRuns}
           : t \in CallTexts}

CallsInit ==
    /\ calls \in ComposeCalls \cup RepeatCalls \cup SpaceCalls
    /\ returned = <<>>
    /\ cmp_in = None
    /\ cmp_out = <<>>
    /\ visited = <<>>
    /\ phase = "idle"
    /\ input = <<>>
    /\ pos = 0
    /\ start_pos = 0
    /\ line_starts = SourceMap_new
    /\ spc = "idle"
    /\ ivalue = 0
    /\ scanned = <<>>
    /\ current = Token_eof(Span_new(0, 0))
    /\ advanced = None
    /\ stack = <<>>
    /\ ret = None
    /\ ast = None
    /\ estack = <<>>
    /\ eret = None
    /\ result = None
    /\ mquery = 0
    /\ mstate = MapPosInit(SourceMap_new)
    /\ mpc = "idle"
    /\ mresult = None

CallsNext == Next \/ CallerNext

CallsSpec == CallsInit /\ [][CallsNext]_vars

(***************************************************************************)
(* C11: for any two valid expression texts a and b that evaluate to Ok(va) *)
(* and Ok(vb), and any operator op of + - * / (vb # 0 for /),              *)
(* eval(a + " " + op + " " + b) returns Ok of the 32-bit two's-complement  *)
(* result of va op vb.                                                     *)
(***************************************************************************)
\* the 32-bit integer whose two's-complement bytes are b
FromBytes(b) ==
    (IF b[3] >= 128 THEN b[3] - 256 ELSE b[3]) * 16777216 + b[2] * 65536 + b[1] * 256 + b[0]

OpName(op) ==
    CASE op = "+" -> "Add" [] op = "-" -> "Sub" [] op = "*" -> "Mul" [] op = "/" -> "Div"

\* va op vb computed directly on the two's-complement representation
Direct(op, va, vb) ==
    IF op = "/"
    THEN (IF va = INT_MIN /\ vb = -1 THEN INT_MIN ELSE TruncatedQuotient(va, vb))
    ELSE FromBytes(ExactBytes(OpName(op), va, vb))

\* the calls i, j, k returned eval(a), eval(b) and eval(a + " " + op + " " + b),
\* a and b evaluate to Ok, and the divisor is not 0
Composed(i, j, k, op) ==
    /\ returned[i].mode = "eval" /\ returned[j].mode = "eval" /\ returned[k].mode = "eval"
    /\ returned[k].text = returned[i].text \o Spaced(op) \o returned[j].text
    /\ returned[i].result.tag = "Ok"
    /\ returned[j].result.tag = "Ok"
    /\ (op = "/" => returned[j].result.value # 0)

ComposedValue(i, j, k, op) ==
    returned[k].result = [tag |-> "Ok",
                          value |-> Direct(op, returned[i].result.value, returned[j].result.value)]

C11_Composition ==
    \A i, j, k \in DOMAIN returned : \A op \in {"+", "-", "*", "/"} :
        Composed(i, j, k, op) => ComposedValue(i, j, k, op)

\* the text has an operator of the kinds outside parentheses
HasTopLevel(text, kinds) ==
    LET toks == RefTokens(text) IN RefTopLevel(toks, 1, Len(toks) - 1, kinds) # {}

\* a and b are operands of op in a + " " + op + " " + b as the grammar reads it
Operands(a, op, b) ==
    IF op \in {"+", "-"}
    THEN ~HasTopLevel(b, {"Plus", "Minus"})
    ELSE /\ ~HasTopLevel(a, {"Plus", "Minus"})
         /\ ~HasTopLevel(b, RefOperators)

(***************************************************************************)
(* C11, amended: the same, provided that a and b are the operands of op as *)
(* the grammar reads the text: for + and -, b has no + or - outside        *)
(* parentheses; for * and /, a has no + or - and b has no operator outside *)
(* parentheses.                                                            *)
(***************************************************************************)
C11_OperandComposition ==
    \A i, j, k \in DOMAIN returned : \A op \in {"+", "-", "*", "/"} :
        (Composed(i, j, k, op) /\ Operands(returned[i].text, op, returned[j].text))
            => ComposedValue(i, j, k, op)

\* eval("2/3"), eval("2") and eval("2/3 * 2") have returned 0, 2 and 0
C11_Witness ==
    /\ Len(returned) = 3
    /\ returned[1].text = <<"2", "/", "3">> /\ returned[1].result = [tag |-> "Ok", value |-> 0]
    /\ returned[2].text = <<"2">> /\ returned[2].result = [tag |-> "Ok", value |-> 2]
    /\ returned[3].text = <<"2", "/", "3", " ", "*", " ", "2">>
    /\ returned[3].result = [tag |-> "Ok", value |-> 0]

(***************************************************************************)
(* C12: eval is deterministic and keeps no state between calls: two calls  *)
(* of eval on the same text return equal results (the same Ok value, or    *)
(* errors with the same message and the same offsets, lines and columns),  *)
(* whatever was evaluated before or in between.                            *)
(***************************************************************************)
C12_Deterministic ==
    \A i, j \in DOMAIN returned :
        (returned[i].mode = "eval" /\ returned[j].mode = "eval"
            /\ returned[i].text = returned[j].text)
          => returned[i].result = returned[j].result

\* "1/" failed twice with the same error, after and before a text of four lines
C12_Witness ==
    /\ Len(returned) = 3
    /\ returned[1].text = <<"1", "/">>
    /\ returned[2].text = <<"\n", "\n", "\n", "1", "/", "0">>
    /\ returned[3].text = <<"1", "/">>
    /\ returned[3].result.tag = "Err"
    /\ returned[3].result.error.span.start = [offset |-> 2, line |-> 1, column |-> 3]
    /\ returned[1].result = returned[3].result

(***************************************************************************)
(* C13: inserting whitespace (space, tab, CR, LF) before the first token,  *)
(* after the last, or between two adjacent tokens changes neither the Ok   *)
(* value eval returns nor the message of its error, and the scanner        *)
(* produces the same sequence of token kinds and integer values.           *)
(***************************************************************************)
\* u is t with a run of whitespace inserted at a boundary
Inserted(t, u) ==
    /\ Len(u) > Len(t)
    /\ \E k \in Boundaries(t) :
          /\ u = Insert(t, k, SubSeq(u, k + 1, k + Len(u) - Len(t)))
          /\ \A i \in (k + 1)..(k + Len(u) - Len(t)) : u[i] \in RefWhitespace

KindsAndValues(tokens) == [i \in DOMAIN tokens |-> <<tokens[i].kind, tokens[i].value>>]

SameOutcome(r, q) ==
    /\ r.tag = q.tag
    /\ (r.tag = "Ok" => r.value = q.value)
    /\ (r.tag = "Err" => r.error.message = q.error.message)

C13_WhitespaceInsensitive ==
    \A i, j \in DOMAIN returned :
        (returned[i].mode = returned[j].mode /\ Inserted(returned[i].text, returned[j].text))
          => /\ KindsAndValues(returned[i].tokens) = KindsAndValues(returned[j].tokens)
             /\ (returned[i].mode = "eval" => SameOutcome(returned[i].result, returned[j].result))

\* "(12)3" and "(12\r\n)3": the same error message, and the same five tokens and Eof
C13_Witness ==
    /\ Len(returned) = 4
    /\ returned[1].text = <<"(", "1", "2", ")", "3">>
    /\ returned[2].text = <<"(", "1", "2", "\r", "\n", ")", "3">>
    /\ returned[1].result.tag = "Err"
    /\ returned[2].result.error.message = "expected end of input"
    /\ Len(returned[3].tokens) = 5
    /\ KindsAndValues(returned[4].tokens) = KindsAndValues(returned[3].tokens)
    /\ returned[4].tokens # returned[3].tokens

(***************************************************************************)
(* A Scanner run until it returns Eof, as the scanner's tests run it.      *)
(***************************************************************************)
ScanAlphabet == {"1", "2", "+", " ", "\r", "\n", "U+2030"}

DigitRuns ==
    {DecimalText(n) : n \in {m \in LitSamples : m >= 0}}
        \cup {<<"2", "1", "4", "7", "4", "8", "3", "6", "4", "8">>,
               <<"4", "2", "9", "4", "9", "6", "7", "2", "9", "6">>,
               <<"4", "2", "9", "4", "9", "6", "7", "2", "9", "7">>,
               <<"9", "9", "9", "9", "9", "9", "9", "9", "9", "9", "9">>,
               <<"0", "0", "0", "1", "2">>,
               <<"1", "2", "%", "3", "4", "\n", "5", "6">>}

ScanInputs ==
    AllTexts(ScanAlphabet, MaxScanLen) \cup DigitRuns
        \cup {<<"1", " ", "+", "\n", "2", " ", "+", "\n", "3">>,
               <<"1", "\r", "\n", "2", "\n">>,
               <<"(", "U+2030", ")", "*", "/", "-", "\t", "7">>}

ScanInit ==
    /\ input \in ScanInputs
    /\ phase = "scan"
    /\ pos = 0
    /\ start_pos = 0
    /\ line_starts = SourceMap_new
    /\ spc = "idle"
    /\ ivalue = 0
    /\ scanned = <<>>
    /\ current = Token_eof(Span_new(0, 0))
    /\ advanced = None
    /\ stack = <<>>
    /\ ret = None
    /\ ast = None
    /\ estack = <<>>
    /\ eret = None
    /\ result = None
    /\ mquery = 0
    /\ mstate = MapPosInit(SourceMap_new)
    /\ mpc = "idle"
    /\ mresult = None
    /\ calls = <<>>
    /\ returned = <<>>
    /\ cmp_in = None
    /\ cmp_out = <<>>
    /\ visited = <<>>

ScanNext == ScannerNext \/ ScanLoop \/ ScanEnd

ScanSpec == ScanInit /\ [][ScanNext]_vars

\* the scanner has returned Eof
Scanned == phase = "done" /\ EofScanned

\* the tokens returned before Eof
Produced == SubSeq(scanned, 1, Len(scanned) - 1)

(***************************************************************************)
(* C14: when the scanner is run until it returns Eof, the spans of the     *)
(* tokens it produced are non-empty, pairwise disjoint and in increasing   *)
(* order, every position outside them holds a whitespace character, and    *)
(* the spans with the skipped whitespace cover exactly [0, input length).  *)
(***************************************************************************)
\* the produced tokens whose span holds offset p
Covering(p) == {i \in DOMAIN Produced : Produced[i].span.start <= p /\ p < Produced[i].span.end}

C14_ScannerCoverage ==
    Scanned =>
        /\ \A i \in DOMAIN Produced :
              /\ 0 <= Produced[i].span.start
              /\ Produced[i].span.start < Produced[i].span.end
              /\ Produced[i].span.end <= Len(input)
              /\ (i > 1 => Produced[i - 1].span.end <= Produced[i].span.start)
        /\ \A p \in 0..(Len(input) - 1) :
              Cardinality(Covering(p)) = IF input[p + 1] \in RefWhitespace THEN 0 ELSE 1
        /\ scanned[Len(scanned)].span = [start |-> Len(input), end |-> Len(input)]

\* " 1\n+" has been scanned: Int at [1, 2) and Plus at [3, 4), whitespace elsewhere
C14_Witness ==
    /\ Scanned
    /\ input = <<" ", "1", "\n", "+">>
    /\ Len(Produced) = 2
    /\ Produced[1].span = [start |-> 1, end |-> 2]
    /\ Produced[2].span = [start |-> 3, end |-> 4]

(***************************************************************************)
(* C16: at an ASCII digit, scan consumes the maximal run of ASCII digits   *)
(* as one Int token whose value is value * 10 + digit with 32-bit          *)
(* wraparound at each step: a digit run of any length gives an Int token,  *)
(* never an error or a saturated value.                                    *)
(***************************************************************************)
\* the index of the token that starts at offset p
TokenAt(p) == CHOOSE i \in DOMAIN scanned : scanned[i].span.start = p

\* the offsets at which a maximal run of digits starts
RunStarts ==
    {p \in 0..(Len(input) - 1) :
        RefIsDigit(input[p + 1]) /\ (p = 0 \/ ~RefIsDigit(input[p]))}

C16_IntLiteralWraps ==
    Scanned =>
        \A p \in RunStarts :
            /\ \E i \in DOMAIN scanned : scanned[i].span.start = p
            /\ scanned[TokenAt(p)] =
                  [span |-> [start |-> p, end |-> RefRunEnd(input, p)],
                   kind |-> "Int",
                   value |-> [tag |-> "Int", int |-> RefLiteral(input, p, RefRunEnd(input, p))]]

\* "2147483648" has been scanned as one Int token of value -2147483648
C16_Witness ==
    /\ Scanned
    /\ input = <<"2", "1", "4", "7", "4", "8", "3", "6", "4", "8">>
    /\ Len(scanned) = 2
    /\ scanned[1] = [span |-> [start |-> 0, end |-> 10], kind |-> "Int",
                      value |-> [tag |-> "Int", int |-> INT_MIN]]

(***************************************************************************)
(* C17: at every point of a scan, the line-start sequence begins with 0,   *)
(* is strictly increasing, and holds besides the 0 exactly one entry p + 1 *)
(* for each LF at offset p consumed so far, in consumption order; a CR or  *)
(* any other character adds none.                                          *)
(***************************************************************************)
\* the offsets after the line feeds among the first n characters, ascending
RefLineStarts(text, n) == <<0>> \o Ascending({p \in 1..n : text[p] = "\n"})

C17_LineStarts ==
    /\ line_starts = RefLineStarts(input, pos)
    /\ line_starts[1] = 0
    /\ \A i \in 1..(Len(line_starts) - 1) : line_starts[i] < line_starts[i + 1]
    /\ Len(line_starts) = 1 + Cardinality({p \in 1..pos : input[p] = "\n"})

\* "1\r\n2\n" has been consumed: line starts 0, 3 and 5
C17_Witness ==
    /\ input = <<"1", "\r", "\n", "2", "\n">>
    /\ pos = 5
    /\ line_starts = <<0, 3, 5>>

(***************************************************************************)
(* C18: every span the scanner produces is a byte-offset range into the    *)
(* UTF-8 input text, and a character that is not whitespace, a digit or    *)
(* one of + - * / ( ) yields an Error token whose span covers exactly that *)
(* one character, also when the character is not ASCII.                    *)
(***************************************************************************)
RECURSIVE ByteOffset(_, _)
\* the offset in bytes of the character after the first n characters
ByteOffset(text, n) == IF n = 0 THEN 0 ELSE ByteOffset(text, n - 1) + Utf8Len(text[n])

\* the i-th token of the text, by the characters it is made of
RefToken(i) == RefTokens(input)[i]

ErrorCharacters ==
    {p \in 0..(Len(input) - 1) :
        input[p + 1] \notin RefWhitespace /\ ~RefIsDigit(input[p + 1])
            /\ input[p + 1] \notin {"+", "-", "*", "/", "(", ")"}}

C18_ByteSpans ==
    Scanned =>
        /\ Len(scanned) = Len(RefTokens(input))
        /\ \A i \in DOMAIN scanned :
              scanned[i].span = [start |-> ByteOffset(input, RefToken(i).start),
                                 end |-> ByteOffset(input, RefToken(i).end)]
        /\ \A p \in ErrorCharacters :
              \E i \in DOMAIN scanned :
                  /\ scanned[i].kind = "Error"
                  /\ scanned[i].span = [start |-> ByteOffset(input, p),
                                        end |-> ByteOffset(input, p + 1)]

(***************************************************************************)
(* C18, amended: every span the scanner produces is a character-offset     *)
(* range into the input text (offsets count characters, which for ASCII    *)
(* text are bytes), and a character that is not whitespace, a digit or one *)
(* of + - * / ( ) yields an Error token whose span covers exactly that one *)
(* character, also when the character is not ASCII.                        *)
(***************************************************************************)
C18_CharacterSpans ==
    Scanned =>
        /\ Len(scanned) = Len(RefTokens(input))
        /\ \A i \in DOMAIN scanned :
              /\ scanned[i].span = [start |-> RefToken(i).start, end |-> RefToken(i).end]
              /\ ((\A k \in DOMAIN input : Utf8Len(input[k]) = 1)
                    => scanned[i].span = [start |-> ByteOffset(input, RefToken(i).start),
                                          end |-> ByteOffset(input, RefToken(i).end)])
        /\ \A p \in ErrorCharacters :
              \E i \in DOMAIN scanned :
                  /\ scanned[i].kind = "Error"
                  /\ scanned[i].span = [start |-> p, end |-> p + 1]

\* "(\u2030)..." has been scanned: the Error token of the per mille sign at [1, 2)
C18_Witness ==
    /\ Scanned
    /\ input = <<"(", "U+2030", ")", "*", "/", "-", "\t", "7">>
    /\ scanned[2] = [span |-> [start |-> 1, end |-> 2], kind |-> "Error",
                      value |-> [tag |-> "None"]]
    /\ scanned[3].span = [start |-> 2, end |-> 3]

(***************************************************************************)
(* Equality and order of SourcePos, SourceSpan and Error.                  *)
(***************************************************************************)
\* the equality #[derive(PartialEq)] would give SourcePos: field by field
SourcePosEqDerived(a, b) == a.offset = b.offset /\ a.line = b.line /\ a.column = b.column

\* impl PartialEq for SourcePos
SourcePos_eq(a, b) == a.offset = b.offset

\* impl Ord for SourcePos (usize::cmp of the offsets)
SourcePos_cmp(a, b) ==
    IF a.offset < b.offset THEN "Less" ELSE IF a.offset = b.offset THEN "Equal" ELSE "Greater"

\* impl PartialOrd for SourcePos, and the `<` it provides
SourcePos_partial_cmp(a, b) == [tag |-> "Some", value |-> SourcePos_cmp(a, b)]
SourcePos_lt(a, b) == SourcePos_partial_cmp(a, b) = [tag |-> "Some", value |-> "Less"]

\* #[derive(PartialEq)] of SourceSpan and of Error
SourceSpan_eq(a, b) == SourcePos_eq(a.start, b.start) /\ SourcePos_eq(a.end, b.end)
Error_eq(a, b) == SourceSpan_eq(a.span, b.span) /\ a.message = b.message

Compared(n) == phase = "compare" /\ Len(cmp_out) = n

\* pos1 == pos2
CompareEq ==
    /\ Compared(0)
    /\ cmp_out' = Append(cmp_out, SourcePos_eq(cmp_in.left.span.start, cmp_in.right.span.start))
    /\ UNCHANGED <<input, call_vars, cmp_in, scanner_vars, parser_vars, phase, eval_vars, result,
                   map_vars>>

\* pos1.cmp(&pos2)
CompareCmp ==
    /\ Compared(1)
    /\ cmp_out' = Append(cmp_out, SourcePos_cmp(cmp_in.left.span.start, cmp_in.right.span.start))
    /\ UNCHANGED <<input, call_vars, cmp_in, scanner_vars, parser_vars, phase, eval_vars, result,
                   map_vars>>

\* pos1 < pos2
CompareLt ==
    /\ Compared(2)
    /\ cmp_out' = Append(cmp_out, SourcePos_lt(cmp_in.left.span.start, cmp_in.right.span.start))
    /\ UNCHANGED <<input, call_vars, cmp_in, scanner_vars, parser_vars, phase, eval_vars, result,
                   map_vars>>

\* span1 == span2
CompareSpans ==
    /\ Compared(3)
    /\ cmp_out' = Append(cmp_out, SourceSpan_eq(cmp_in.left.span, cmp_in.right.span))
    /\ UNCHANGED <<input, call_vars, cmp_in, scanner_vars, parser_vars, phase, eval_vars, result,
                   map_vars>>

\* error1 == error2
CompareErrors ==
    /\ Compared(4)
    /\ cmp_out' = Append(cmp_out, Error_eq(cmp_in.left, cmp_in.right))
    /\ UNCHANGED <<input, call_vars, cmp_in, scanner_vars, parser_vars, phase, eval_vars, result,
                   map_vars>>

CompareNext == CompareEq \/ CompareCmp \/ CompareLt \/ CompareSpans \/ CompareErrors

Positions ==
    {SourcePos_new(o, l, c) : o \in 0..MaxCmpOffset, l \in {1, 2}, c \in {1, 3}}

Errors(messages) ==
    {Error_new(SourceSpan_new(a, b), m) : a \in Positions, b \in Positions, m \in messages}

CompareInit ==
    /\ cmp_in \in {[left |-> a, right |-> b]
                      : a \in Errors({"division by zero"}),
                        b \in Errors({"division by zero", "expected end of input"})}
    /\ cmp_out = <<>>
    /\ visited = <<>>
    /\ phase = "compare"
    /\ input = <<>>
    /\ pos = 0
    /\ start_pos = 0
    /\ line_starts = SourceMap_new
    /\ spc = "idle"
    /\ ivalue = 0
    /\ scanned = <<>>
    /\ current = Token_eof(Span_new(0, 0))
    /\ advanced = None
    /\ stack = <<>>
    /\ ret = None
    /\ ast = None
    /\ estack = <<>>
    /\ eret = None
    /\ result = None
    /\ mquery = 0
    /\ mstate = MapPosInit(SourceMap_new)
    /\ mpc = "idle"
    /\ mresult = None
    /\ calls = <<>>
    /\ returned = <<>>

CompareSpec == CompareInit /\ [][CompareNext]_vars

(***************************************************************************)
(* C15: equality and ordering of SourcePos are decided by the offset       *)
(* alone: positions with the same offset are equal whatever their line and *)
(* column, and pos1 < pos2 iff offset1 < offset2; two SourceSpans, or two  *)
(* Errors with equal messages, whose start and end offsets agree compare   *)
(* equal even when their lines or columns differ.                          *)
(***************************************************************************)
OffsetsAgree(a, b) ==
    /\ a.span.start.offset = b.span.start.offset
    /\ a.span.end.offset = b.span.end.offset

C15_OffsetDecides ==
    LET a == cmp_in.left
        b == cmp_in.right
    IN /\ Compared(1) => (cmp_out[1] <=> a.span.start.offset = b.span.start.offset)
       /\ Compared(2) => (cmp_out[2] = "Equal" <=> a.span.start.offset = b.span.start.offset)
       /\ Compared(3) => (cmp_out[3] <=> a.span.start.offset < b.span.start.offset)
       /\ Compared(4) => (cmp_out[4] <=> OffsetsAgree(a, b))
       /\ Compared(5) => (cmp_out[5] <=> (OffsetsAgree(a, b) /\ a.message = b.message))

\* two Errors whose positions agree in offset but in neither line nor column compared equal
C15_Witness ==
    /\ Compared(5)
    /\ cmp_in.left.span.start = [offset |-> 1, line |-> 1, column |-> 1]
    /\ cmp_in.right.span.start = [offset |-> 1, line |-> 2, column |-> 3]
    /\ cmp_in.left.span.end.line # cmp_in.right.span.end.line
    /\ cmp_out = <<TRUE, "Equal", FALSE, TRUE, TRUE>>

(***************************************************************************)
(* C19: in every AST the parser returns, an Int node's span is its token's *)
(* span, a Binary node's span is [left.span.start, right.span.end), a      *)
(* Group node's span runs from the start of its '(' to the end of its      *)
(* matching ')'; every child's span is contained in its parent's span, and *)
(* the root's span runs from the first token's start to the last token's   *)
(* end.                                                                    *)
(***************************************************************************)
Within(inner, outer) == outer.start <= inner.start /\ inner.end <= outer.end

\* the j-th token is the ')' that closes the '(' which is the i-th token
Matching(toks, i, j) ==
    /\ i < j
    /\ toks[i].kind = "LParen"
    /\ toks[j].kind = "RParen"
    /\ RefDepth(toks, i, j) = 1
    /\ \A k \in (i + 1)..j : RefDepth(toks, i, k) >= 1

RECURSIVE WellSpanned(_, _)
WellSpanned(expr, toks) ==
    CASE expr.type = "Int" ->
            \E i \in 1..Len(toks) :
                /\ toks[i].kind = "Int"
                /\ expr.span = Span_new(toks[i].start, toks[i].end)
                /\ expr.value = toks[i].value
      [] expr.type = "Group" ->
            /\ \E i, j \in 1..Len(toks) :
                  /\ Matching(toks, i, j)
                  /\ expr.span = Span_new(toks[i].start, toks[j].end)
                  /\ expr.expr.span = Span_new(toks[i + 1].start, toks[j - 1].end)
            /\ Within(expr.expr.span, expr.span)
            /\ WellSpanned(expr.expr, toks)
      [] expr.type = "Binary" ->
            /\ expr.span = Span_new(expr.left.span.start, expr.right.span.end)
            /\ expr.left.span.end <= expr.right.span.start
            /\ Within(expr.left.span, expr.span)
            /\ Within(expr.right.span, expr.span)
            /\ WellSpanned(expr.left, toks)
            /\ WellSpanned(expr.right, toks)

C19_AstSpans ==
    (ParseReturned /\ ret.tag = "Ok")
        => LET toks == RefTokens(input)
           IN /\ WellSpanned(ret.value, toks)
              /\ ret.value.span = Span_new(toks[1].start, toks[Len(toks) - 1].end)

\* "(1 + 2) * 3" has been parsed: the product spans 0..11, the group 0..7, the sum 1..6
C19_Witness ==
    /\ ParseReturned
    /\ input = <<"(", "1", " ", "+", " ", "2", ")", " ", "*", " ", "3">>
    /\ ret.tag = "Ok"
    /\ ret.value.type = "Binary"
    /\ ret.value.span = Span_new(0, 11)
    /\ ret.value.left.span = Span_new(0, 7)
    /\ ret.value.left.expr.span = Span_new(1, 6)
    /\ ret.value.right.span = Span_new(10, 11)

(***************************************************************************)
(* C20: evaluating a Binary node evaluates the left operand before the     *)
(* right one, and evaluates the right operand whatever the operator and    *)
(* the left value are ("0 * (1 / 0)" fails with division by zero); when    *)
(* the left operand fails, its error is the one returned, so among several *)
(* divisions by zero the one reported is the first in left-to-right        *)
(* post-order.                                                             *)
(***************************************************************************)
\* eval_binary_expr starts with its left operand
LeftFirst ==
    Evaluating("Binary", "begin")
        => /\ Len(estack') = Len(estack) + 1
           /\ estack'[Len(estack')] = EFrame(ETop.expr.left)
           /\ estack'[Len(estack)].expr = ETop.expr

\* a left operand that has a value is followed by the right operand
RightAlways ==
    (Evaluating("Binary", "left_ret") /\ eret.tag = "Ok")
        => /\ Len(estack') = Len(estack) + 1
           /\ estack'[Len(estack')] = EFrame(ETop.expr.right)
           /\ estack'[Len(estack)].left = eret.value

\* a left operand that has failed ends the node with its error
LeftErrorReturned ==
    (Evaluating("Binary", "left_ret") /\ eret.tag = "Err")
        => estack' = EPop /\ eret' = eret

\* the division by zero eval reports is the first in left-to-right post-order
FirstDivisionReported ==
    (Done /\ RefParse(input).kind = "ok" /\ RefValue(input).tag = "Err")
        => /\ result.tag = "Err"
           /\ result.error.message = "division by zero"
           /\ result.error.span.start.offset = RefValue(input).span.start
           /\ result.error.span.end.offset = RefValue(input).span.end

C20_LeftBeforeRight ==
    /\ []FirstDivisionReported
    /\ [][LeftFirst /\ RightAlways /\ LeftErrorReturned]_vars

\* "0 * (1 / 0)" has failed with division by zero at the division, offsets 5..10
C20_Witness ==
    /\ Done
    /\ input = <<"0", " ", "*", " ", "(", "1", " ", "/", " ", "0", ")">>
    /\ result.tag = "Err"
    /\ result.error.message = "division by zero"
    /\ result.error.span.start.offset = 5
    /\ result.error.span.end.offset = 10

(***************************************************************************)
(* A Scanner whose scan is called again after it has returned Eof, as      *)
(* Parser::expect(Eof) calls it through advance.                           *)
(***************************************************************************)
\* the Eof tokens returned so far
EofCount == Cardinality({i \in DOMAIN scanned : scanned[i].kind = "Eof"})

\* one more call of scan after Eof
ScanAgain ==
    /\ phase = "scan"
    /\ spc = "idle"
    /\ EofScanned
    /\ EofCount <= MaxEofScans
    /\ CallScan
    /\ UNCHANGED <<input, call_vars, cmp_vars, pos, start_pos, line_starts, ivalue, parser_vars, phase,
                   eval_vars, result, map_vars>>

EofNext == ScanNext \/ ScanAgain

EofSpec == ScanInit /\ [][EofNext]_vars

(***************************************************************************)
(* C21: once the input is exhausted, scan returns an Eof token whose span  *)
(* is the empty range [n, n], n the offset of the end of the input (after  *)
(* trailing whitespace has been skipped); every later scan call returns    *)
(* the same Eof token again and leaves the scanner position and the        *)
(* line-start sequence unchanged.                                          *)
(***************************************************************************)
\* the index in scanned of the first Eof token
FirstEof == CHOOSE i \in DOMAIN scanned : scanned[i].kind = "Eof" /\ \A j \in 1..(i - 1) : scanned[j].kind # "Eof"

EofState ==
    (\E i \in DOMAIN scanned : scanned[i].kind = "Eof")
        => /\ \A i \in FirstEof..Len(scanned) :
                 scanned[i] = Token_eof(Span_new(Len(input), Len(input)))
           /\ pos = Len(input)
           /\ line_starts = RefLineStarts(input, Len(input))

\* a step taken after Eof has been returned changes neither pos nor line_starts
EofStep ==
    (\E i \in DOMAIN scanned : scanned[i].kind = "Eof")
        => /\ pos' = pos
           /\ line_starts' = line_starts
           /\ \A i \in DOMAIN scanned' : i > Len(scanned) => scanned'[i] = scanned[Len(scanned)]

C21_EofRepeats == []EofState /\ [][EofStep]_vars

\* "1\n " scanned three times past its end: Int, then Eof at [3, 3] three times over
C21_Witness ==
    /\ input = <<"1", "\n", " ">>
    /\ scanned = <<Token_int(Span_new(0, 1), 1)>>
                    \o [i \in 1..3 |-> Token_eof(Span_new(3, 3))]
    /\ pos = 3
    /\ line_starts = <<0, 2>>

(***************************************************************************)
(* C22: for every input text, eval returns Ok or Err with no assertion or  *)
(* panic reachable: every Span is built with start <= end, add_line_start  *)
(* is always passed an offset strictly greater than the last recorded line *)
(* start, every SourceSpan is built with start <= end, Token::int_value is *)
(* called only on Int tokens, BinaryOp::from_token only on + - * / tokens, *)
(* and map_pos neither indexes outside line_starts nor underflows when     *)
(* computing the column.                                                   *)
(***************************************************************************)
\* debug_assert!(start <= end) of Span::new
SpanOrdered(span) == 0 <= span.start /\ span.start <= span.end

RECURSIVE SpansOrdered(_)
\* Span::new held for every node of the tree
SpansOrdered(expr) ==
    /\ SpanOrdered(expr.span)
    /\ CASE expr.type = "Int" -> TRUE
         [] expr.type = "Group" -> SpansOrdered(expr.expr)
         [] expr.type = "Binary" -> SpansOrdered(expr.left) /\ SpansOrdered(expr.right)

RECURSIVE MapPosInBounds(_, _, _)
\* map_pos from the locals st on: line_starts[mid] and line_starts[index] are inside the
\* vector, and neither size - half - 1 nor pos - line_starts[index] goes below 0
MapPosInBounds(ls, p, st) ==
    IF st.size > 0
    THEN LET half == st.size \div 2
         IN /\ st.base + half < Len(ls)
            /\ st.size - half - 1 >= 0
            /\ MapPosInBounds(ls, p, MapPosIter(ls, p, st))
    ELSE /\ st.index < Len(ls)
         /\ p - ls[st.index + 1] >= 0

\* map_span on span runs without a panic: both map_pos calls, then the assert! of
\* SourceSpan::new on the two positions (ordered by offset)
MapSpanSafe(ls, span) ==
    /\ MapPosInBounds(ls, span.start, MapPosInit(ls))
    /\ MapPosInBounds(ls, span.end, MapPosInit(ls))
    /\ SourcePos_cmp(map_pos(ls, span.start), map_pos(ls, span.end)) # "Greater"

\* assert!(start <= end) of SourceSpan::new held for the error of r
ErrorOrdered(r) == r.tag = "Err" => r.error.span.start.offset <= r.error.span.end.offset

NoPanicState ==
    \* Span::new, for the tokens ...
    /\ \A i \in DOMAIN scanned : SpanOrdered(scanned[i].span)
    /\ SpanOrdered(current.span)
    /\ advanced # None => SpanOrdered(advanced.span)
    \* ... and for the nodes
    /\ ret.tag = "Ok" => SpansOrdered(ret.value)
    /\ \A i \in DOMAIN stack : stack[i].left # None => SpansOrdered(stack[i].left)
    /\ ast # None => SpansOrdered(ast)
    \* SourceSpan::new
    /\ ErrorOrdered(ret) /\ ErrorOrdered(eret) /\ ErrorOrdered(result)
    \* Token::int_value
    /\ Running("factor", "int_adv")
          => advanced.kind = "Int" /\ advanced.value.tag = "Int"
    \* BinaryOp::from_token
    /\ \A i \in DOMAIN stack :
          stack[i].pc = "right_ret" => stack[i].tok.kind \in {"Plus", "Minus", "Star", "Slash"}
    \* map_span in Parser::error, which is given the current token ...
    /\ (phase = "parse" /\ spc = "idle") => MapSpanSafe(line_starts, current.span)
    \* ... and in Evaluator::error, which is given the node being evaluated
    /\ phase = "eval" => \A i \in DOMAIN estack : MapSpanSafe(line_starts, estack[i].expr.span)
    \* eval returns Ok or Err
    /\ Done => result.tag \in {"Ok", "Err"}

\* debug_assert! of SourceMap::add_line_start: the offset pushed is above the last one
AddLineStartOrdered ==
    line_starts' # line_starts
        => /\ Len(line_starts') = Len(line_starts) + 1
           /\ SubSeq(line_starts', 1, Len(line_starts)) = line_starts
           /\ line_starts[Len(line_starts)] < line_starts'[Len(line_starts')]

C22_NoPanic == []NoPanicState /\ [][AddLineStartOrdered]_vars

\* "1\t*\r\n%" has failed at the `%`, 2:1-2:2, with the line start 5 recorded
C22_Witness ==
    /\ Done
    /\ input = <<"1", "\t", "*", "\r", "\n", "%">>
    /\ line_starts = <<0, 5>>
    /\ result.tag = "Err"
    /\ result.error.span = [start |-> [offset |-> 5, line |-> 2, column |-> 1],
                            end |-> [offset |-> 6, line |-> 2, column |-> 2]]

(***************************************************************************)
(* C23: whenever the parser or the evaluator constructs an Error, every LF *)
(* of the input at an offset below the error span's end has already been   *)
(* consumed by the scanner and recorded, so the line-start entries that    *)
(* are <= the span's end are exactly those of the completely scanned       *)
(* input; during parsing the scanner's position always equals the end of   *)
(* the parser's current (lookahead) token.                                 *)
(***************************************************************************)
SeqRange(q) == {q[i] : i \in DOMAIN q}

\* the line feeds below offset e are consumed and recorded in ls, and ls agrees up to e
\* with the line starts of the whole input
LinefeedsRecorded(ls, e) ==
    /\ \A p \in 0..(Len(input) - 1) :
          (input[p + 1] = "\n" /\ p < e) => (p < pos /\ p + 1 \in SeqRange(ls))
    /\ {x \in SeqRange(ls) : x <= e}
          = {x \in SeqRange(RefLineStarts(input, Len(input))) : x <= e}

\* the step constructs an Error into r (ret of the parser, eret of the evaluator)
ErrorConstructed(r, rnext) == rnext.tag = "Err" /\ r.tag # "Err"

ErrorAfterLinefeeds ==
    /\ ErrorConstructed(ret, ret') => LinefeedsRecorded(line_starts, ret'.error.span.end.offset)
    /\ ErrorConstructed(eret, eret') => LinefeedsRecorded(line_starts, eret'.error.span.end.offset)

\* between two scan calls the scanner stands at the end of the lookahead token
PosAtLookahead == (phase = "parse" /\ spc = "idle") => pos = current.span.end

C23_ErrorsResolvable == []PosAtLookahead /\ [][ErrorAfterLinefeeds]_vars

\* "\n%\n1" has failed at the `%` of line 2 with the second line feed not yet scanned
C23_Witness ==
    /\ Done
    /\ input = <<"\n", "%", "\n", "1">>
    /\ pos = 2
    /\ line_starts = <<0, 1>>
    /\ result.tag = "Err"
    /\ result.error.span = [start |-> [offset |-> 1, line |-> 2, column |-> 1],
                            end |-> [offset |-> 2, line |-> 2, column |-> 2]]

(***************************************************************************)
(* eval run to its end: the steps of Spec, taken as long as one is         *)
(* possible (one thread, no suspension points).                            *)
(***************************************************************************)
TermInputs == AllTexts(Alphabet, MaxTermLen) \cup ExampleInputs \cup OrderInputs

TermInit ==
    /\ input \in TermInputs
    /\ pos = 0
    /\ start_pos = 0
    /\ line_starts = SourceMap_new
    /\ spc = "idle"
    /\ ivalue = 0
    /\ current = Token_eof(Span_new(0, 0))
    /\ advanced = None
    /\ stack = <<Frame("parse", "begin")>>
    /\ ret = None
    /\ phase = "parse"
    /\ ast = None
    /\ estack = <<>>
    /\ eret = None
    /\ result = None
    /\ mquery = 0
    /\ mstate = MapPosInit(SourceMap_new)
    /\ mpc = "idle"
    /\ mresult = None
    /\ scanned = <<>>
    /\ calls = <<>>
    /\ returned = <<>>
    /\ cmp_in = None
    /\ cmp_out = <<>>
    /\ visited = <<>>

TermSpec == TermInit /\ [][Next]_vars /\ WF_vars(Next)

(***************************************************************************)
(* C24: for every finite input, eval terminates with a result: each scan   *)
(* call either consumes at least one character or returns Eof, every       *)
(* iteration of the parser's operator loops and every parse_factor call    *)
(* consumes at least one token or fails, the evaluator visits each AST     *)
(* node once, and the search window of map_pos strictly shrinks on every   *)
(* iteration.                                                              *)
(***************************************************************************)
\* where the scanner stood when the scan call that is returning was made
PosAtCall == IF scanned = <<>> THEN 0 ELSE scanned[Len(scanned)].span.end

\* a scan call that returns has consumed a character or returns Eof
ScanConsumes ==
    Len(scanned') = Len(scanned) + 1
        => \/ scanned'[Len(scanned')].kind = "Eof"
           \/ pos' > PosAtCall

\* parse_factor fails or advances, and the node it returns ends with the token consumed last
FactorConsumes ==
    /\ Running("factor", "begin") => ((stack' = Pop /\ ret'.tag = "Err") \/ spc' = "skip")
    /\ (Running("factor", "int_adv") \/ Running("factor", "rparen_adv"))
          => /\ ret'.tag = "Ok"
             /\ ret'.value.span.start < ret'.value.span.end
             /\ ret'.value.span.end = advanced.span.end

\* the left operand of the loop of parse_expr / parse_term after this step
NextLeft == IF Len(stack') = Len(stack) THEN stack'[Len(stack')].left ELSE ret'.value

\* an iteration of an operator loop that does not fail has consumed the operator and an
\* operand: the new left operand ends after the old one
LoopConsumes ==
    \A fn \in {"expr", "term"} :
        (Running(fn, "right_ret") /\ ret.tag = "Ok")
            => /\ NextLeft.type = "Binary"
               /\ NextLeft.left = Top.left
               /\ NextLeft.span.end > Top.left.span.end
               /\ Top.tok.span.end > Top.left.span.end

RECURSIVE Nodes(_)
\* the nodes of a tree
Nodes(expr) ==
    {expr} \cup
        CASE expr.type = "Int" -> {}
          [] expr.type = "Group" -> Nodes(expr.expr)
          [] expr.type = "Binary" -> Nodes(expr.left) \cup Nodes(expr.right)

\* no node is visited twice; a run without an error has visited every node
VisitedOnce ==
    /\ \A i, j \in DOMAIN visited : visited[i] = visited[j] => i = j
    /\ visited # <<>> => SeqRange(visited) \subseteq Nodes(ast)
    /\ (Done /\ result.tag = "Ok") => SeqRange(visited) = Nodes(ast)

RECURSIVE MapPosShrinks(_, _, _)
\* every iteration of the loop of map_pos from st on leaves a smaller size
MapPosShrinks(ls, p, st) ==
    st.size > 0 => /\ MapPosIter(ls, p, st).size < st.size
                   /\ MapPosShrinks(ls, p, MapPosIter(ls, p, st))

MapSpanShrinks(ls, span) ==
    /\ MapPosShrinks(ls, span.start.offset, MapPosInit(ls))
    /\ MapPosShrinks(ls, span.end.offset, MapPosInit(ls))

WindowShrinks ==
    /\ ErrorConstructed(ret, ret') => MapSpanShrinks(line_starts, ret'.error.span)
    /\ ErrorConstructed(eret, eret') => MapSpanShrinks(line_starts, eret'.error.span)

C24_Terminates ==
    /\ <>Done
    /\ [](Done => result.tag \in {"Ok", "Err"})
    /\ []VisitedOnce
    /\ [][ScanConsumes /\ FactorConsumes /\ LoopConsumes /\ WindowShrinks]_vars

\* "(1 + 2) * 3" has been evaluated to 9: seven tokens and Eof twice scanned, the six
\* nodes visited, each once
C24_Witness ==
    /\ Done
    /\ input = <<"(", "1", " ", "+", " ", "2", ")", " ", "*", " ", "3">>
    /\ result = Ok(9)
    /\ Len(visited) = 6
    /\ Len(scanned) = 9

(***************************************************************************)
(* C25: the line-start sequence is append-only and written only by the     *)
(* scanner: a scan step never changes or removes a recorded entry, and the *)
(* parser's error construction, span resolution (map_span / map_pos) and   *)
(* the whole evaluator leave the sequence unchanged, so the sequence at    *)
(* the end of parsing is the one every evaluator error is resolved         *)
(* against.                                                                *)
(***************************************************************************)
\* a scan call is running
Scanning == spc \in {"skip", "int"}

\* only a step inside scan writes line_starts, and it appends
OnlyScannerAppends ==
    line_starts' # line_starts
        => /\ Scanning
           /\ Len(line_starts') > Len(line_starts)
           /\ SubSeq(line_starts', 1, Len(line_starts)) = line_starts

\* the steps of the parser (between scan calls) and of the evaluator leave it alone
ReadersLeaveUnchanged ==
    ((phase = "parse" /\ ~Scanning) \/ phase = "eval") => line_starts' = line_starts

\* the evaluator's error is the node's span resolved against the sequence parsing ended with
EvaluatorResolves ==
    ErrorConstructed(eret, eret')
        => eret'.error.span = map_span(RefLineStarts(input, Len(input)), ETop.expr.span)

\* parsing ends, and the evaluator runs, with the line starts of the whole input
SequenceAfterParsing ==
    ((ParseReturned /\ ret.tag = "Ok") \/ phase = "eval")
        => line_starts = RefLineStarts(input, Len(input))

C25_ScannerSoleWriter ==
    /\ []SequenceAfterParsing
    /\ [][OnlyScannerAppends /\ ReadersLeaveUnchanged /\ EvaluatorResolves]_vars

\* "\n1/0" has failed with division by zero at 2:1-2:4, resolved against <<0, 1>>
C25_Witness ==
    /\ Done
    /\ input = <<"\n", "1", "/", "0">>
    /\ line_starts = <<0, 1>>
    /\ result = Err(Error_new(SourceSpan_new(SourcePos_new(1, 2, 1), SourcePos_new(4, 2, 4)),
                               "division by zero"))

====
